---- MODULE Spec2Model ----
(***************************************************************************)
(* A model of the depth core of wigglegram-3d (src/depth-processor.js):    *)
(* DepthProcessor.computeDepthMap and the stages it sequences.             *)
(*                                                                         *)
(* Typed arrays are functions over 0..length-1.  A Float32Array holds      *)
(* fixed-point numbers: the integer n in the model stands for the value    *)
(* n / Q, and every store into a Float32Array rounds to that grid.  A      *)
(* Uint8Array or Uint8ClampedArray holds plain integers 0..255.            *)
(***************************************************************************)
EXTENDS Integers, Sequences, FiniteSets, TLC

\* Resolution of the fixed-point grid standing for Float32Array values.
Q == 100

\* The float value of the integer n.
Fx(n) == n * Q

Abs(n) == IF n < 0 THEN -n ELSE n

Min(a, b) == IF a < b THEN a ELSE b

Max(a, b) == IF a > b THEN a ELSE b

\* Math.round(num / den) for den > 0: the nearest integer, a tie going up.
RoundDiv(num, den) == (2 * num + den) \div (2 * den)

\* Math.floor(size / 2), as the stages compute their radius.
halfOf(size) == size \div 2

RECURSIVE SumFn(_, _, _)
\* f[lo] + ... + f[hi], the range halved at each call to keep the nesting low.
SumFn(f, lo, hi) ==
    IF lo > hi THEN 0
    ELSE IF lo = hi THEN f[lo]
    ELSE LET mid == (lo + hi) \div 2
         IN  SumFn(f, lo, mid) + SumFn(f, mid + 1, hi)

\* A buffer that has not been allocated yet.
Null == <<>>

(***************************************************************************)
(* Numbers past 32 bits.  A JavaScript Number carries 53 significant bits  *)
(* and a Float32Array element 24; a natural number too long for an integer *)
(* of the model is held as its digits in base Base, the lowest first.      *)
(***************************************************************************)
Base == 10000

RECURSIVE bigOf(_)
\* The digits of the natural number n.
bigOf(n) == IF n = 0 THEN <<>> ELSE <<n % Base>> \o bigOf(n \div Base)

\* The lowest digit of a, and the digits above it.
lowDigit(a) == IF a = <<>> THEN 0 ELSE Head(a)

highDigits(a) == IF a = <<>> THEN <<>> ELSE Tail(a)

RECURSIVE bigAdd(_, _, _)
\* a + b + carry
bigAdd(a, b, carry) ==
    IF a = <<>> /\ b = <<>> THEN bigOf(carry)
    ELSE LET d == lowDigit(a) + lowDigit(b) + carry
         IN  <<d % Base>> \o bigAdd(highDigits(a), highDigits(b), d \div Base)

RECURSIVE bigSub(_, _, _)
\* a - b - borrow, for a >= b + borrow
bigSub(a, b, borrow) ==
    IF a = <<>> THEN <<>>
    ELSE LET d == lowDigit(a) - lowDigit(b) - borrow
         IN  <<d % Base>> \o bigSub(highDigits(a), highDigits(b),
                                    IF d < 0 THEN 1 ELSE 0)

RECURSIVE bigScale(_, _, _)
\* a * digit + carry, for digit < Base
bigScale(a, digit, carry) ==
    IF a = <<>> THEN bigOf(carry)
    ELSE LET d == Head(a) * digit + carry
         IN  <<d % Base>> \o bigScale(Tail(a), digit, d \div Base)

RECURSIVE bigMul(_, _)
\* a * b
bigMul(a, b) ==
    IF b = <<>> THEN <<>>
    ELSE bigAdd(bigScale(a, Head(b), 0), <<0>> \o bigMul(a, Tail(b)), 0)

RECURSIVE bigCmp(_, _)
\* -1, 0 or 1 as a < b, a = b or a > b (high digits of 0 do not count).
bigCmp(a, b) ==
    IF a = <<>> /\ b = <<>> THEN 0
    ELSE LET high == bigCmp(highDigits(a), highDigits(b))
         IN  IF high # 0 THEN high
             ELSE IF lowDigit(a) < lowDigit(b) THEN -1
             ELSE IF lowDigit(a) > lowDigit(b) THEN 1
             ELSE 0

\* a * a
bigSquare(a) == bigMul(a, a)

RECURSIVE Pow2(_)
\* 2^e as an integer, for e <= 30
Pow2(e) == IF e = 0 THEN 1 ELSE 2 * Pow2(e - 1)

RECURSIVE bigPow2(_)
\* 2^e, by squaring
bigPow2(e) ==
    IF e <= 13 THEN <<Pow2(e)>>
    ELSE LET half == bigSquare(bigPow2(e \div 2))
         IN  IF e % 2 = 0 THEN half ELSE bigScale(half, 2, 0)

RECURSIVE bigDivMod(_, _)
\* The quotient and the remainder of a by d, for 0 < d < Base, from the
\* highest digit down.
bigDivMod(a, d) ==
    IF a = <<>> THEN [quot |-> <<>>, rem |-> 0]
    ELSE LET high == bigDivMod(Tail(a), d)
             cur == high.rem * Base + Head(a)
         IN  [quot |-> <<cur \div d>> \o high.quot, rem |-> cur % d]

RECURSIVE bigShiftRight(_, _)
\* floor(a / 2^bits)
bigShiftRight(a, bits) ==
    IF bits <= 13 THEN bigDivMod(a, Pow2(bits)).quot
    ELSE bigShiftRight(bigDivMod(a, Pow2(13)).quot, bits - 13)

RECURSIVE doubleShift(_, _)
\* The least s >= from with a < 2^(53 + s).
doubleShift(a, from) ==
    IF bigCmp(a, bigPow2(53 + from)) < 0 THEN from ELSE doubleShift(a, from + 1)

\* The Number nearest to a, a tie going to the even significand: a, below
\* 2^66, is kept to its 53 highest bits.
doubleRound(a) ==
    LET s == doubleShift(a, 0)
        unit == Pow2(s)
        parts == bigDivMod(a, unit)
        up == \/ 2 * parts.rem > unit
              \/ 2 * parts.rem = unit /\ lowDigit(parts.quot) % 2 = 1
    IN  IF s = 0 THEN a
        ELSE bigScale(IF up THEN bigAdd(parts.quot, <<>>, 1) ELSE parts.quot,
                      unit, 0)

(***************************************************************************)
(* Conversions on a store into an 8-bit typed array.                       *)
(***************************************************************************)

\* Uint8Array[i] = n for an integer n: ToUint8, n modulo 2^8.
ToUint8(n) == n % 256

\* The store of a Uint8Array in place of a Uint8ClampedArray: round, then
\* reduce modulo 2^8.
ToUint8Wrap(num, den) == ToUint8(RoundDiv(num, den))

\* Uint8ClampedArray[i] = v for the float v = num / den, den > 0
\* (ToUint8Clamp): clamp to 0..255, round to nearest, a tie going to even.
ToUint8Clamp(num, den) ==
    IF num <= 0 THEN 0
    ELSE IF num >= 255 * den THEN 255
    ELSE LET f == num \div den
             r == 2 * (num - f * den)
         IN  IF r > den THEN f + 1
             ELSE IF r < den THEN f
             ELSE IF f % 2 = 0 THEN f ELSE f + 1

(***************************************************************************)
(* toGrayscale                                                             *)
(***************************************************************************)

\* The samples are taken as premultiplied by alpha.
toGrayscalePremultiplied(imageData) ==
    [i \in 0..(imageData.width * imageData.height - 1) |->
        ToUint8(RoundDiv((299 * imageData.data[i * 4] + 587 * imageData.data[i * 4 + 1]
                              + 114 * imageData.data[i * 4 + 2])
                             * imageData.data[i * 4 + 3],
                         1000 * 255))]

\* gray is given one element for each sample of data, four to a pixel.
toGrayscalePerSample(imageData) ==
    [i \in 0..(4 * imageData.width * imageData.height - 1) |->
        IF i >= imageData.width * imageData.height THEN 0
        ELSE ToUint8(RoundDiv(299 * imageData.data[i * 4] + 587 * imageData.data[i * 4 + 1]
                                  + 114 * imageData.data[i * 4 + 2], 1000))]

\* The Numbers 0.299, 0.587 and 0.114, each in units of 2^-56.
weightR == <<452, 1734, 2206, 1545, 2>>

weightG == <<3696, 26, 8077, 2297, 4>>

weightB == <<3785, 2032, 5657, 8214>>

\* Math.round(0.299 * r + 0.587 * g + 0.114 * b) as the Numbers compute it:
\* three rounded products, two rounded sums, then the floor of the sum + 0.5.
luminosityOfNumbers(r, g, b) ==
    LET product(w, v) == doubleRound(bigMul(w, bigOf(v)))
        sum == doubleRound(bigAdd(doubleRound(bigAdd(product(weightR, r),
                                                     product(weightG, g), 0)),
                                  product(weightB, b), 0))
    IN  lowDigit(bigShiftRight(bigAdd(sum, bigPow2(55), 0), 56))

\* Math.round(0.299 * r + 0.587 * g + 0.114 * b).  The roundings of the
\* products and sums move the sum by less than 2^-40, which changes the
\* result only where the exact sum lies halfway between two integers.
luminosity(r, g, b) ==
    LET exact == 299 * r + 587 * g + 114 * b
    IN  IF exact % 1000 = 500 THEN luminosityOfNumbers(r, g, b)
        ELSE RoundDiv(exact, 1000)

toGrayscale(imageData) ==
    [i \in 0..(imageData.width * imageData.height - 1) |->
        ToUint8(luminosity(imageData.data[i * 4],
                           imageData.data[i * 4 + 1],
                           imageData.data[i * 4 + 2]))]

(***************************************************************************)
(* blockMatch                                                              *)
(***************************************************************************)

\* leftIdx, rightIdx of the k-th term of the SAD window, rows first.
leftIdx(c, k) ==
    LET n == 2 * c.halfBlock + 1
    IN  (c.y + (k \div n) - c.halfBlock) * c.width + (c.x + (k % n) - c.halfBlock)

\* The block is sought d columns to the right instead of to the left.
rightIdxForward(c, d, k) == leftIdx(c, k) + d

\* (y + by) * width + (x + bx - d)
rightIdx(c, d, k) == leftIdx(c, k) - d

\* The number of terms of one SAD: the by and bx loops.
sadTerms(c) ==
    IF c.halfBlock < 0 THEN 0 ELSE (2 * c.halfBlock + 1) * (2 * c.halfBlock + 1)

\* A read past the end of a typed array is undefined, and the sum NaN.
sadIsNaN(c, d) ==
    \E k \in 0..(sadTerms(c) - 1) :
        \/ leftIdx(c, k) \notin DOMAIN c.left
        \/ rightIdx(c, d, k) \notin DOMAIN c.right

\* The differences are summed without Math.abs.
sadSigned(c, d) ==
    SumFn([k \in 0..(sadTerms(c) - 1) |->
              c.left[leftIdx(c, k)] - c.right[rightIdx(c, d, k)]],
          0, sadTerms(c) - 1)

\* sad after the by and bx loops
sad(c, d) ==
    SumFn([k \in 0..(sadTerms(c) - 1) |->
              Abs(c.left[leftIdx(c, k)] - c.right[rightIdx(c, d, k)])],
          0, sadTerms(c) - 1)

\* sad <= minSAD: the comparison a tie-breaking slip would make.
sadNotAbove(s, st) == st.minIsInfinity \/ s <= st.minSAD

\* sad < minSAD, with minSAD = Infinity until a candidate was taken.
sadBelow(s, st) == st.minIsInfinity \/ s < st.minSAD

\* One turn of the loop over d: bestDisparity and minSAD after candidate d.
searchStep(c, d, st) ==
    LET nan == sadIsNaN(c, d)
        s == IF nan THEN 0 ELSE sad(c, d)
    IN  IF ~nan /\ sadBelow(s, st)
        THEN [bestDisparity |-> d, minIsInfinity |-> FALSE, minSAD |-> s]
        ELSE st

RECURSIVE search(_, _, _, _)
\* The turns d = lo..hi of the loop in ascending order, entered with st.  The
\* range is halved at each call, and the test on the first half's result has
\* it evaluated before the second half is entered: the nesting stays low.
search(c, lo, hi, st) ==
    IF lo > hi THEN st
    ELSE IF lo = hi THEN searchStep(c, lo, st)
    ELSE LET mid == (lo + hi) \div 2
             first == search(c, lo, mid, st)
         IN  IF first.bestDisparity >= 0 THEN search(c, mid + 1, hi, first) ELSE first

\* The search bound: d runs past x - halfBlock, to maxDisparity.
maxDUnclamped(maxDisparity, x, halfBlock) == maxDisparity

\* Math.min(maxDisparity, x - halfBlock)
maxDOf(maxDisparity, x, halfBlock) == Min(maxDisparity, x - halfBlock)

\* bestDisparity of the pixel (x, y).
bestDisparityAt(left, right, width, halfBlock, maxDisparity, x, y) ==
    search([left |-> left, right |-> right, width |-> width,
            halfBlock |-> halfBlock, x |-> x, y |-> y],
           0, maxDOf(maxDisparity, x, halfBlock),
           [bestDisparity |-> 0, minIsInfinity |-> TRUE, minSAD |-> 0]).bestDisparity

\* The rows (columns) the y (x) loop visits.
loopRange(size, halfBlock) == halfBlock..(size - halfBlock - 1)

\* The border takes the disparity of the nearest interior pixel, as the
\* filters replicate their edges, instead of staying 0.
blockMatchReplicate(left, right, width, height, blockSize, maxDisparity) ==
    LET halfBlock == halfOf(blockSize)
        xs == loopRange(width, halfBlock)
        ys == loopRange(height, halfBlock)
    IN  [i \in 0..(width * height - 1) |->
            IF xs = {} \/ ys = {} THEN 0
            ELSE Fx(bestDisparityAt(left, right, width, halfBlock, maxDisparity,
                                    Max(halfBlock, Min(width - halfBlock - 1, i % width)),
                                    Max(halfBlock, Min(height - halfBlock - 1, i \div width))))]

\* The disparity array: element i holds the last value the loops wrote at
\* index y * width + x = i (a write outside the array is dropped), 0 if none.
blockMatch(left, right, width, height, blockSize, maxDisparity) ==
    LET halfBlock == halfOf(blockSize)
        xs == loopRange(width, halfBlock)
        ys == loopRange(height, halfBlock)
    IN  [i \in 0..(width * height - 1) |->
            LET wy == {y \in ys : (i - y * width) \in xs}
            IN  IF wy = {} THEN 0
                ELSE LET y == CHOOSE v \in wy : \A u \in wy : u <= v
                     IN  Fx(bestDisparityAt(left, right, width, halfBlock,
                                            maxDisparity, i - y * width, y))]

(***************************************************************************)
(* medianFilter                                                            *)
(***************************************************************************)

\* The index wraps to the opposite side.
wrapIndex(v, size) == v % size

\* Math.max(0, Math.min(size - 1, v))
clampIndex(v, size) == Max(0, Min(size - 1, v))

RECURSIVE insertSorted(_, _)
\* The ascending sequence s with v put in its place.
insertSorted(s, v) ==
    IF s = <<>> THEN <<v>>
    ELSE IF v <= Head(s) THEN <<v>> \o s
    ELSE <<Head(s)>> \o insertSorted(Tail(s), v)

RECURSIVE sortAscending(_)
\* kernel.sort((a, b) => a - b)
sortAscending(s) ==
    IF s = <<>> THEN <<>> ELSE insertSorted(sortAscending(Tail(s)), Head(s))

\* A neighbour outside the field counts as 0.
medianKernelZeroPadded(data, width, height, half, x, y) ==
    LET n == 2 * half + 1
    IN  [k \in 1..(n * n) |->
            LET ny == y + ((k - 1) \div n) - half
                nx == x + ((k - 1) % n) - half
            IN  IF ny \in 0..(height - 1) /\ nx \in 0..(width - 1)
                THEN data[ny * width + nx]
                ELSE 0]

\* The kernel gathered at (x, y), in the order of the ky and kx loops.
medianKernel(data, width, height, half, x, y) ==
    LET n == 2 * half + 1
    IN  [k \in 1..(n * n) |->
            LET ky == ((k - 1) \div n) - half
                kx == ((k - 1) % n) - half
            IN  data[clampIndex(y + ky, height) * width + clampIndex(x + kx, width)]]

medianFilter(data, width, height, kernelSize) ==
    LET half == halfOf(kernelSize)
    IN  [i \in DOMAIN data |->
            IF i < width * height
            THEN LET kernel == sortAscending(
                                   medianKernel(data, width, height, half,
                                                i % width, i \div width))
                 IN  kernel[(Len(kernel) \div 2) + 1]
            ELSE 0]

(***************************************************************************)
(* gaussianBlur                                                            *)
(***************************************************************************)

\* Math.ceil(sigma * 3), for the integer sigma the pipelines pass.
kernelHalf(sigma) == 3 * sigma

\* Math.exp(-(i * i) / (2 * sigma * sigma)) for i = 0..kernelHalf(sigma),
\* in thousandths, for the two sigmas the pipelines pass.
expTable(sigma) ==
    IF sigma = 2 THEN <<1000, 882, 607, 325, 135, 44, 11>>
    ELSE <<1000, 980, 923, 835, 726, 607, 487, 375,
           278, 198, 135, 89, 56, 34, 20, 11>>

\* kernel[k + half] before the division by sum.
kernelWeight(sigma, k) == expTable(sigma)[Abs(k) + 1]

\* sum
kernelSum(sigma) ==
    LET half == kernelHalf(sigma)
    IN  SumFn([j \in 0..(2 * half) |-> kernelWeight(sigma, j - half)], 0, 2 * half)

\* A tap outside the row is dropped.
blurHorizontalDropped(data, width, height, sigma) ==
    LET half == kernelHalf(sigma)
        sum == kernelSum(sigma)
    IN  [i \in DOMAIN data |->
            RoundDiv(SumFn([j \in 0..(2 * half) |->
                               IF (i % width) + j - half \in 0..(width - 1)
                               THEN data[i + j - half] * kernelWeight(sigma, j - half)
                               ELSE 0],
                           0, 2 * half),
                     sum)]

\* The horizontal pass: temp, each element rounded as it is stored.
blurHorizontal(data, width, height, sigma) ==
    LET half == kernelHalf(sigma)
        sum == kernelSum(sigma)
    IN  [i \in DOMAIN data |->
            RoundDiv(SumFn([j \in 0..(2 * half) |->
                               data[(i \div width) * width
                                    + clampIndex((i % width) + j - half, width)]
                               * kernelWeight(sigma, j - half)],
                           0, 2 * half),
                     sum)]

\* The vertical pass over temp: result.
blurVertical(temp, width, height, sigma) ==
    LET half == kernelHalf(sigma)
        sum == kernelSum(sigma)
    IN  [i \in DOMAIN temp |->
            RoundDiv(SumFn([j \in 0..(2 * half) |->
                               temp[clampIndex((i \div width) + j - half, height) * width
                                    + (i % width)]
                               * kernelWeight(sigma, j - half)],
                           0, 2 * half),
                     sum)]

\* The vertical pass reads the input, not temp.
gaussianBlurOfInput(data, width, height, sigma) ==
    blurVertical(data, width, height, sigma)

gaussianBlur(data, width, height, sigma) ==
    blurVertical(blurHorizontal(data, width, height, sigma), width, height, sigma)

(***************************************************************************)
(* normalizeArray                                                          *)
(***************************************************************************)

\* min and max of the first loop (data is not empty).
arrayMin(data) == CHOOSE v \in {data[i] : i \in DOMAIN data} :
                      \A i \in DOMAIN data : v <= data[i]

arrayMax(data) == CHOOSE v \in {data[i] : i \in DOMAIN data} :
                      \A i \in DOMAIN data : v >= data[i]

\* max - min || 1, with Infinity as the range of an empty array.
rangeOf(min, max) == IF max - min = 0 THEN Fx(1) ELSE max - min

\* The scale runs the other way: the minimum maps to 255.
normalizedValueInverted(v, min, range) ==
    IF range = 0 THEN 0 ELSE 255 - RoundDiv((v - min) * 255, range)

\* Math.round(((v - min) / range) * 255), 0 / 0 being NaN.
normalizedValue(v, min, range) ==
    IF range = 0 THEN 0 ELSE RoundDiv((v - min) * 255, range)

\* The element is scaled to 0..256.
normalizeArrayTo256(data) ==
    IF DOMAIN data = {} THEN data
    ELSE LET min == arrayMin(data)
             max == arrayMax(data)
             range == rangeOf(min, max)
         IN  [i \in DOMAIN data |-> ToUint8(RoundDiv((data[i] - min) * 256, range))]

normalizeArray(data) ==
    IF DOMAIN data = {} THEN data
    ELSE LET min == arrayMin(data)
             max == arrayMax(data)
             range == rangeOf(min, max)
         IN  [i \in DOMAIN data |-> ToUint8(normalizedValue(data[i], min, range))]

(***************************************************************************)
(* sobelEdges                                                              *)
(***************************************************************************)
\* A kernel whose weights do not sum to 0.
sobelXUnbalanced == <<-1, 0, 1, -2, 0, 2, -1, 0, 2>>

sobelX == <<-1, 0, 1, -2, 0, 2, -1, 0, 1>>

sobelY == <<-1, -2, -1, 0, 0, 0, 1, 2, 1>>

\* The rows (columns) the y (x) loop visits: 1..size - 2.
sobelRange(size) == 1..(size - 2)

\* (y + ky) * width + (x + kx) at the k-th turn of the ky and kx loops
sobelIdx(width, x, y, k) ==
    (y + ((k - 1) \div 3) - 1) * width + (x + ((k - 1) % 3) - 1)

\* The same read with its row and its column clamped into the field.
sobelIdxClamped(width, height, x, y, k) ==
    clampIndex(y + ((k - 1) \div 3) - 1, height) * width
        + clampIndex(x + ((k - 1) % 3) - 1, width)

\* gx (gy) after the kernel loops, for kernel = sobelX (sobelY) and the nine
\* values read.
sobelGradient(values, kernel) == SumFn([k \in 1..9 |-> values[k] * kernel[k]], 1, 9)

RECURSIVE magnitudeSearch(_, _, _)
\* The largest n in lo..hi with n - 1/2 <= Q * sqrt(sq) / 255, lo being one.
magnitudeSearch(lo, hi, sq) ==
    IF lo >= hi THEN lo
    ELSE LET mid == (lo + hi + 1) \div 2
         IN  IF bigCmp(bigSquare(bigOf((2 * mid - 1) * 255)),
                       bigMul(bigOf(4 * Q * Q), bigOf(sq))) <= 0
             THEN magnitudeSearch(mid, hi, sq)
             ELSE magnitudeSearch(lo, mid - 1, sq)

\* Math.sqrt(gx * gx + gy * gy) / 255 as it is stored
sobelMagnitude(gx, gy) == magnitudeSearch(0, 6 * Q, gx * gx + gy * gy)

\* Every pixel is visited, the kernel clamped at the border as the filters
\* clamp theirs.
sobelEdgesReplicate(gray, width, height) ==
    [i \in 0..(width * height - 1) |->
        LET values == [k \in 1..9 |->
                          gray[sobelIdxClamped(width, height, i % width, i \div width, k)]]
        IN  sobelMagnitude(sobelGradient(values, sobelX), sobelGradient(values, sobelY))]

sobelEdges(gray, width, height) ==
    [i \in 0..(width * height - 1) |->
        IF (i % width) \in sobelRange(width) /\ (i \div width) \in sobelRange(height)
        THEN LET values == [k \in 1..9 |->
                               gray[sobelIdx(width, i % width, i \div width, k)]]
             IN  sobelMagnitude(sobelGradient(values, sobelX),
                                sobelGradient(values, sobelY))
        ELSE 0]

(***************************************************************************)
(* The radial gradient of createFallbackDepthMap.  Its elements are kept   *)
(* as the 32-bit floats the Float32Array holds: [man, exp] stands for      *)
(* man / 2^exp, with 2^23 <= man < 2^24, or man = 0 for the value 0.  The  *)
(* double arithmetic before the store (53 bits) is taken as exact.         *)
(***************************************************************************)

\* The distance is taken from the middle pixel ((width - 1) / 2, (height - 1) / 2).
distSq4MiddlePixel(width, height, x, y) ==
    (2 * x - width + 1) * (2 * x - width + 1)
        + (2 * y - height + 1) * (2 * y - height + 1)

\* dx * dx + dy * dy, times 4: centerX and centerY are halves.
distSq4(width, height, x, y) ==
    (2 * x - width) * (2 * x - width) + (2 * y - height) * (2 * y - height)

\* centerX * centerX + centerY * centerY, times 4
maxDistSq4(width, height) == width * width + height * height

\* v * 2^e >= f for v = 1 - sqrt(m / M), that is 2^e * sqrt(m / M) <= 2^e - f:
\* scaled is 4^e * m, pow is 2^e and bigM is M, in digits.
radialAtLeast(scaled, pow, bigM, f) ==
    bigCmp(scaled, bigMul(bigSquare(bigSub(pow, bigOf(f), 0)), bigM)) <= 0

RECURSIVE radialBinade(_, _, _)
\* The least j >= from with v >= 2^-j.
radialBinade(m, M, from) ==
    IF radialAtLeast(bigMul(bigPow2(2 * from), bigOf(m)), bigPow2(from), bigOf(M), 1)
    THEN from
    ELSE radialBinade(m, M, from + 1)

RECURSIVE radialFloor(_, _, _, _, _)
\* The largest f in lo..hi with f <= v * 2^e (lo is one).
radialFloor(scaled, pow, bigM, lo, hi) ==
    IF lo >= hi THEN lo
    ELSE LET mid == (lo + hi + 1) \div 2
         IN  IF radialAtLeast(scaled, pow, bigM, mid)
             THEN radialFloor(scaled, pow, bigM, mid, hi)
             ELSE radialFloor(scaled, pow, bigM, lo, mid - 1)

\* The float nearest to v, of the binade of v * 2^e in 2^23..2^24, a tie
\* going to the even mantissa.
radialRound(m, M, e) ==
    LET pow == bigPow2(e)
        bigM == bigOf(M)
        scaled == bigMul(bigSquare(pow), bigOf(m))
        f == radialFloor(scaled, pow, bigM, Pow2(23), Pow2(24) - 1)
        half == bigCmp(bigScale(scaled, 4, 0),
                       bigMul(bigSquare(bigSub(bigScale(pow, 2, 0), bigOf(2 * f + 1), 0)),
                              bigM))
        man == IF half < 0 \/ (half = 0 /\ f % 2 = 1) THEN f + 1 ELSE f
    IN  IF man = Pow2(24) THEN [man |-> Pow2(23), exp |-> e - 1]
        ELSE [man |-> man, exp |-> e]

\* 1 - (dist / maxDist) as the Float32Array stores it, for 4 * dist^2 = m and
\* 4 * maxDist^2 = M, m <= M.
radialStored(m, M) ==
    IF m >= M THEN [man |-> 0, exp |-> 0]
    ELSE IF m = 0 THEN [man |-> Pow2(23), exp |-> 23]
    ELSE radialRound(m, M, 23 + radialBinade(m, M, 1))

\* radial[y * width + x]
radialAt(width, height, x, y) ==
    radialStored(distSq4(width, height, x, y), maxDistSq4(width, height))

\* The order of two stored floats: a < b.
floatLess(a, b) ==
    IF b.man = 0 THEN FALSE
    ELSE IF a.man = 0 THEN TRUE
    ELSE IF a.exp # b.exp THEN a.exp > b.exp
    ELSE a.man < b.man

RECURSIVE gridSearch(_, _, _)
\* The largest n in lo..hi with n - 1/2 <= Q * a, lo being one.
gridSearch(a, lo, hi) ==
    IF lo >= hi THEN lo
    ELSE LET mid == (lo + hi + 1) \div 2
         IN  IF bigCmp(bigMul(bigOf(2 * mid - 1), bigPow2(a.exp)),
                       bigMul(bigOf(2 * Q), bigOf(a.man))) <= 0
             THEN gridSearch(a, mid, hi)
             ELSE gridSearch(a, lo, mid - 1)

\* The element of the Q grid nearest to the float a in 0..1.
floatToGrid(a) == gridSearch(a, 0, Q)

\* radial after its loops.
radialGradient(width, height) ==
    [i \in 0..(width * height - 1) |-> radialAt(width, height, i % width, i \div width)]

(***************************************************************************)
(* The state of one DepthProcessor and of one call of computeDepthMap.     *)
(***************************************************************************)
VARIABLES
    pc,                 \* the statement of the running call to run next
    options,            \* the options object of the call
    leftImg, rightImg,  \* the two image elements: width, height, RGBA samples
    canvas,             \* this.canvas, the scratch canvas: its size and bitmap
    leftData, rightData,    \* ImageData of getImageData
    leftGray, rightGray,    \* Uint8Array of toGrayscale
    disparity,          \* Float32Array of blockMatch
    median,             \* Float32Array of medianFilter
    blurred,            \* Float32Array of gaussianBlur
    normalized,         \* Uint8Array of normalizeArray
    processedDisparity, \* which of the four buffers the variable refers to
    depthImageData,     \* depthImageData.data, a Uint8ClampedArray
    thrown,             \* the exception that ended the call
    stages,             \* the stages run so far, in order
    img,                \* createFallbackDepthMap: the image element
    imageData,          \* its ImageData
    gray,               \* Uint8Array of toGrayscale
    edges,              \* Float32Array of sobelEdges
    radial,             \* Float32Array of the radial gradient, as floats
    depth,              \* Float32Array of the combination
    smoothed,           \* Float32Array of gaussianBlur
    call,               \* a stage called on its own: its name and arguments
    temp,               \* gaussianBlur: temp as the horizontal pass left it
    result,             \* the buffer that call returned
    heap,               \* the typed arrays that exist, the arguments first
    resultRef,          \* which of them the call returned
    pending,            \* the calls still to be made on this DepthProcessor
    made,               \* the calls made on it so far, the running one last
    uint8,              \* MPOParser.parse: the bytes of the buffer
    pos,                \* findJPEGBoundaries: the scan position
    start,              \* the position of the SOI of the image being scanned
                        \* (declared at the SOI; 0 until the first)
    boundaries,         \* the boundaries pushed so far
    images,             \* what parse returns: the byte range of each image
    viewer,             \* WigglegramApp.viewer: the WiggleViewer and its fields
    files,              \* handleFiles: the files its loop has yet to process
    elements,           \* the page: which of its areas are hidden
    window,             \* the browser: what it has of DeviceOrientationEvent
    toggled             \* whether the mode button has been clicked

\* The locals of createFallbackDepthMap.
fallbackVars == <<img, imageData, gray, edges, radial, depth, smoothed>>

\* A stage called on its own.
stageVars == <<call, temp, result, heap, resultRef>>

\* One DepthProcessor called again and again.
sharedVars == <<pending, made>>

\* One call of MPOParser.parse.
parserVars == <<uint8, pos, start, boundaries, images>>

\* What no step of a pipeline or of a stage touches.
appVars == <<viewer, files, elements, window, toggled>>
otherVars == <<sharedVars, parserVars, appVars>>

vars == <<pc, options, leftImg, rightImg, canvas, leftData, rightData, leftGray,
          rightGray, disparity, median, blurred, normalized, processedDisparity,
          depthImageData, thrown, stages, fallbackVars, stageVars, otherVars>>

\* The locals of computeDepthMap, but normalized and depthImageData.
stereoVars == <<leftImg, rightImg, leftData, rightData, leftGray, rightGray,
                disparity, median, blurred, processedDisparity>>

\* const width = leftImg.width; const height = leftImg.height
width == leftImg.width

height == leftImg.height

\* The buffer processedDisparity refers to.
processed ==
    CASE processedDisparity = "disparity" -> disparity
      [] processedDisparity = "median" -> median
      [] processedDisparity = "blurred" -> blurred
      [] processedDisparity = "normalized" -> normalized

\* The denominator of the values of that buffer: Q for a Float32Array.
processedDen == IF processedDisparity = "normalized" THEN 1 ELSE Q

(***************************************************************************)
(* The inputs: images and options.                                         *)
(***************************************************************************)

\* Bounds of the exhaustive families.
MaxW == 4

MaxDisparity == 3

\* Width of the one-row image whose disparities pass 255.
WideW == 258

\* The width and the height of the images matched with 3 x 3 blocks.
BlockW == 4

BlockH == 3

GrayLevels == {0, 255}

\* An opaque gray pixel.
grayPixel(k) == <<k, k, k, 255>>

GrayPixels == {grayPixel(k) : k \in GrayLevels}

\* White and red: luminosities 255 and 76.
Palette == {grayPixel(255), <<255, 0, 0, 255>>}

\* An image element of w x h pixels, px[i] the RGBA samples of pixel i.
imageOf(w, h, px) ==
    [width |-> w, height |-> h,
     data |-> [j \in 0..(4 * w * h - 1) |-> px[j \div 4][(j % 4) + 1]]]

\* Every w x h image with its pixels in colours.
Images(w, h, colours) ==
    {imageOf(w, h, px) : px \in [0..(w * h - 1) -> colours]}

\* The image of the gray field g.
grayImage(w, h, g) == imageOf(w, h, [i \in 0..(w * h - 1) |-> grayPixel(g[i])])

\* The field g moved k columns to the left, fill entering on the right:
\* shifted(x, y) = g(x + k, y) wherever x + k < w.
shiftField(w, h, g, k, fill) ==
    [i \in 0..(w * h - 1) |-> IF (i % w) + k < w THEN g[i + k] ELSE fill]

optionsOf(b, m, s, n) ==
    [blockSize |-> b, maxDisparity |-> m, smoothing |-> s, normalize |-> n]

inputOf(o, l, r) == [options |-> o, leftImg |-> l, rightImg |-> r]

\* Any options object a caller can pass, with 2 x 1 images.
InputsAnyOptions ==
    {inputOf(optionsOf(b, m, s, n), l, r) :
        b \in {-1, 0, 1, 2, 3, 8}, m \in (-1)..MaxDisparity,
        s \in BOOLEAN, n \in BOOLEAN,
        l \in Images(2, 1, GrayPixels), r \in Images(2, 1, GrayPixels)}

\* Images of any two sizes 0..2 x 0..2, each of one colour.
InputsAnySize ==
    {inputOf(optionsOf(b, 1, s, n), l, r) :
        b \in {1, 3}, s \in BOOLEAN, n \in BOOLEAN,
        l \in UNION {Images(w, h, {c}) : w \in 0..2, h \in 0..2, c \in GrayPixels},
        r \in UNION {Images(w, h, {c}) : w \in 0..2, h \in 0..2, c \in GrayPixels}}

\* Every pair of one-row images of the same width, matched pixel by pixel.
InputsRows ==
    UNION {{inputOf(optionsOf(1, m, s, n), l, r) :
               m \in {1, MaxDisparity}, s \in BOOLEAN, n \in BOOLEAN,
               l \in Images(w, 1, Palette),
               r \in Images(w, 1, Palette)} : w \in 1..MaxW}

\* Every pair of 2 x 2 images, matched pixel by pixel.
InputsSquare ==
    {inputOf(optionsOf(1, m, s, s), l, r) :
        m \in {1, MaxDisparity}, s \in BOOLEAN,
        l \in Images(2, 2, GrayPixels), r \in Images(2, 2, GrayPixels)}

\* The gray fields of BlockW x BlockH whose first and last row are equal.
BlockFields ==
    {[i \in 0..(BlockW * BlockH - 1) |->
         IF (i \div BlockW) % 2 = 0 THEN a[i % BlockW] ELSE b[i % BlockW]] :
        a \in [0..(BlockW - 1) -> GrayLevels], b \in [0..(BlockW - 1) -> GrayLevels]}

\* A field and the same field shifted by k columns, matched with 3 x 3 blocks.
InputsShifted ==
    {inputOf(optionsOf(3, m, s, s),
             grayImage(BlockW, BlockH, g),
             grayImage(BlockW, BlockH, shiftField(BlockW, BlockH, g, k, fill))) :
        m \in {1, MaxDisparity}, s \in {FALSE}, g \in BlockFields,
        k \in 0..2, fill \in GrayLevels}

\* A one-row image with one white pixel at its right end and one with it at
\* its left end, searched past disparity 255.
InputsWide ==
    {inputOf(optionsOf(1, WideW + 42, s, n),
             grayImage(WideW, 1, [i \in 0..(WideW - 1) |-> IF i = WideW - 1 THEN 255 ELSE 0]),
             grayImage(WideW, 1, [i \in 0..(WideW - 1) |-> IF i = 0 THEN 255 ELSE 0])) :
        s \in BOOLEAN, n \in BOOLEAN}

\* The side and the gray level of the uniform images of the end-to-end
\* scenario.
ScenarioSize == 16

ScenarioGray == 100

\* Two identical uniform images under the default block size and the one the
\* app passes, smoothing and normalize on.
InputsScenario ==
    {inputOf(optionsOf(b, 64, TRUE, TRUE),
             grayImage(ScenarioSize, ScenarioSize,
                       [i \in 0..(ScenarioSize * ScenarioSize - 1) |-> ScenarioGray]),
             grayImage(ScenarioSize, ScenarioSize,
                       [i \in 0..(ScenarioSize * ScenarioSize - 1) |-> ScenarioGray])) :
        b \in {9, 11}}

Inputs == InputsAnyOptions \cup InputsAnySize \cup InputsRows \cup InputsSquare
              \cup InputsShifted \cup InputsWide \cup InputsScenario

(***************************************************************************)
(* computeDepthMap, statement by statement.                                *)
(***************************************************************************)

\* The pixel of a cleared bitmap.
transparentBlack == <<0, 0, 0, 0>>

\* document.createElement('canvas'): 300 x 150, its bitmap cleared.  A
\* cleared bitmap is held as Null, in place of width * height pixels of
\* transparent black.
newCanvas == [width |-> 300, height |-> 150, data |-> Null]

\* The RGBA samples of the pixel (x, y) of a bitmap or of an image; outside
\* of it, transparent black.
pixelAt(c, x, y) ==
    IF c.data = Null \/ x >= c.width \/ y >= c.height THEN transparentBlack
    ELSE [k \in 1..4 |-> c.data[4 * (y * c.width + x) + k - 1]]

\* The canvas is given the size w x h and its bitmap is kept, cut or
\* extended to the new size.
canvasResizeKeeping(c, w, h) ==
    [width |-> w, height |-> h,
     data |-> IF c.data = Null THEN Null
              ELSE [j \in 0..(4 * w * h - 1) |->
                       pixelAt(c, (j \div 4) % w, (j \div 4) \div w)[(j % 4) + 1]]]

\* this.canvas.width = w; this.canvas.height = h: setting either clears the
\* bitmap, whatever it held.
canvasResize(c, w, h) == [width |-> w, height |-> h, data |-> Null]

\* The source pixel src composited over dst, the default operation of
\* drawImage: src where it is opaque, dst where it is transparent.
sourceOver(src, dst) ==
    LET under == RoundDiv(dst[4] * (255 - src[4]), 255)
        alpha == src[4] + under
    IN  IF alpha = 0 THEN transparentBlack
        ELSE [k \in 1..4 |->
                 IF k = 4 THEN alpha
                 ELSE RoundDiv(src[k] * src[4] + dst[k] * under, alpha)]

\* this.ctx.drawImage(img, 0, 0)
drawImage(c, image) ==
    [c EXCEPT !.data =
        [j \in 0..(4 * c.width * c.height - 1) |->
            LET x == (j \div 4) % c.width
                y == (j \div 4) \div c.width
            IN  IF x < image.width /\ y < image.height
                THEN sourceOver(pixelAt(image, x, y), pixelAt(c, x, y))[(j % 4) + 1]
                ELSE pixelAt(c, x, y)[(j % 4) + 1]]]

\* this.canvas after getImageData(img): sized to the image, the image drawn.
canvasDrawn(c, image) ==
    drawImage(canvasResize(c, image.width, image.height), image)

\* The state at the call computeDepthMap(in.leftImg, in.rightImg, in.options)
\* on a new DepthProcessor.
Called(in) ==
    /\ pc = "getLeft"
    /\ options = in.options
    /\ leftImg = in.leftImg
    /\ rightImg = in.rightImg
    /\ canvas = newCanvas
    /\ leftData = Null /\ rightData = Null
    /\ leftGray = Null /\ rightGray = Null
    /\ disparity = Null /\ median = Null /\ blurred = Null /\ normalized = Null
    /\ processedDisparity = "disparity"
    /\ depthImageData = Null
    /\ thrown = "none"
    /\ stages = <<>>
    /\ img = Null /\ imageData = Null /\ gray = Null /\ edges = Null
    /\ radial = Null /\ depth = Null /\ smoothed = Null
    /\ call = Null /\ temp = Null /\ result = Null
    /\ heap = Null /\ resultRef = Null

\* The DepthProcessor is called once.
sharedIdle == pending = Null /\ made = Null

\* No file is being parsed.
parserIdle ==
    /\ uint8 = Null /\ pos = Null /\ start = Null
    /\ boundaries = Null /\ images = Null

\* No page is open.
appIdle ==
    /\ viewer = Null /\ files = Null /\ elements = Null
    /\ window = Null /\ toggled = Null
othersIdle == sharedIdle /\ parserIdle /\ appIdle

Init == othersIdle /\ \E in \in Inputs : Called(in)

\* ctx.getImageData(0, 0, img.width, img.height) throws IndexSizeError when
\* the width or the height is 0.
getImageDataThrows(image) == image.width = 0 \/ image.height = 0

\* getImageData(img): the ImageData returned, the pixels of the bitmap c of
\* this.canvas once img is drawn on it.
getImageData(c, image) ==
    [width |-> image.width, height |-> image.height,
     data |-> [j \in 0..(4 * image.width * image.height - 1) |->
                  pixelAt(c, (j \div 4) % image.width,
                          (j \div 4) \div image.width)[(j % 4) + 1]]]

\* const leftData = this.getImageData(leftImg)
GetLeftData ==
    /\ pc = "getLeft"
    /\ canvas' = canvasDrawn(canvas, leftImg)
    /\ IF getImageDataThrows(leftImg)
       THEN /\ pc' = "thrown"
            /\ thrown' = "IndexSizeError"
            /\ UNCHANGED leftData
       ELSE /\ pc' = "getRight"
            /\ leftData' = getImageData(canvas', leftImg)
            /\ UNCHANGED thrown
    /\ UNCHANGED <<options, leftImg, rightImg, rightData, leftGray, rightGray,
                   disparity, median, blurred, normalized, processedDisparity,
                   depthImageData, stages>>
    /\ UNCHANGED <<fallbackVars, stageVars, otherVars>>

\* const rightData = this.getImageData(rightImg)
GetRightData ==
    /\ pc = "getRight"
    /\ canvas' = canvasDrawn(canvas, rightImg)
    /\ IF getImageDataThrows(rightImg)
       THEN /\ pc' = "thrown"
            /\ thrown' = "IndexSizeError"
            /\ UNCHANGED rightData
       ELSE /\ pc' = "grayLeft"
            /\ rightData' = getImageData(canvas', rightImg)
            /\ UNCHANGED thrown
    /\ UNCHANGED <<options, leftImg, rightImg, leftData, leftGray, rightGray,
                   disparity, median, blurred, normalized, processedDisparity,
                   depthImageData, stages>>
    /\ UNCHANGED <<fallbackVars, stageVars, otherVars>>

\* const leftGray = this.toGrayscale(leftData)
GrayLeft ==
    /\ pc = "grayLeft"
    /\ leftGray' = toGrayscale(leftData)
    /\ stages' = Append(stages, "grayscale(left)")
    /\ pc' = "grayRight"
    /\ UNCHANGED <<options, leftImg, rightImg, canvas, leftData, rightData,
                   rightGray, disparity, median, blurred, normalized,
                   processedDisparity, depthImageData, thrown>>
    /\ UNCHANGED <<fallbackVars, stageVars, otherVars>>

\* const rightGray = this.toGrayscale(rightData)
GrayRight ==
    /\ pc = "grayRight"
    /\ rightGray' = toGrayscale(rightData)
    /\ stages' = Append(stages, "grayscale(right)")
    /\ pc' = "blockMatch"
    /\ UNCHANGED <<options, leftImg, rightImg, canvas, leftData, rightData,
                   leftGray, disparity, median, blurred, normalized,
                   processedDisparity, depthImageData, thrown>>
    /\ UNCHANGED <<fallbackVars, stageVars, otherVars>>

\* if (normalize), reached after the smoothing or past it
afterSmoothing(o) == IF o.normalize THEN "normalize" ELSE "fill"

\* The normalizer sits inside the smoothing branch.
afterBlockMatchNested(o) == IF o.smoothing THEN "median" ELSE "fill"

\* if (smoothing)
afterBlockMatch(o) == IF o.smoothing THEN "median" ELSE afterSmoothing(o)

\* const disparity = this.blockMatch(...); let processedDisparity = disparity
BlockMatch ==
    /\ pc = "blockMatch"
    /\ disparity' = blockMatch(leftGray, rightGray, width, height,
                               options.blockSize, options.maxDisparity)
    /\ processedDisparity' = "disparity"
    /\ stages' = Append(stages, "blockMatch")
    /\ pc' = afterBlockMatch(options)
    /\ UNCHANGED <<options, leftImg, rightImg, canvas, leftData, rightData,
                   leftGray, rightGray, median, blurred, normalized,
                   depthImageData, thrown>>
    /\ UNCHANGED <<fallbackVars, stageVars, otherVars>>

\* processedDisparity = this.medianFilter(disparity, width, height, 3)
MedianFilter ==
    /\ pc = "median"
    /\ median' = medianFilter(disparity, width, height, 3)
    /\ processedDisparity' = "median"
    /\ stages' = Append(stages, "medianFilter")
    /\ pc' = "blur"
    /\ UNCHANGED <<options, leftImg, rightImg, canvas, leftData, rightData,
                   leftGray, rightGray, disparity, blurred, normalized,
                   depthImageData, thrown>>
    /\ UNCHANGED <<fallbackVars, stageVars, otherVars>>

\* processedDisparity = this.gaussianBlur(processedDisparity, width, height, 2);
\* if (normalize)
GaussianBlur ==
    /\ pc = "blur"
    /\ blurred' = gaussianBlur(processed, width, height, 2)
    /\ processedDisparity' = "blurred"
    /\ stages' = Append(stages, "gaussianBlur")
    /\ pc' = afterSmoothing(options)
    /\ UNCHANGED <<options, leftImg, rightImg, canvas, leftData, rightData,
                   leftGray, rightGray, disparity, median, normalized,
                   depthImageData, thrown>>
    /\ UNCHANGED <<fallbackVars, stageVars, otherVars>>

\* processedDisparity = this.normalizeArray(processedDisparity)
Normalize ==
    /\ pc = "normalize"
    /\ normalized' = normalizeArray(processed)
    /\ processedDisparity' = "normalized"
    /\ stages' = Append(stages, "normalizeArray")
    /\ pc' = "fill"
    /\ UNCHANGED <<options, leftImg, rightImg, canvas, leftData, rightData,
                   leftGray, rightGray, disparity, median, blurred,
                   depthImageData, thrown>>
    /\ UNCHANGED <<fallbackVars, stageVars, otherVars>>

\* depthImageData.data after the fill loop: four samples for each element of
\* processedDisparity, in a buffer of width * height * 4 zeroes.
depthFill(values, den, w, h) ==
    [j \in 0..(4 * w * h - 1) |->
        IF (j \div 4) \notin DOMAIN values THEN 0
        ELSE IF j % 4 = 3 THEN 255
        ELSE ToUint8Clamp(values[j \div 4], den)]

\* The depth canvas, createImageData(width, height), the fill loop and return.
FillAndReturn ==
    /\ pc = "fill"
    /\ depthImageData' = depthFill(processed, processedDen, width, height)
    /\ stages' = Append(stages, "fill")
    /\ pc' = "returned"
    /\ UNCHANGED <<options, leftImg, rightImg, canvas, leftData, rightData,
                   leftGray, rightGray, disparity, median, blurred, normalized,
                   processedDisparity, thrown>>
    /\ UNCHANGED <<fallbackVars, stageVars, otherVars>>

Next ==
    \/ GetLeftData
    \/ GetRightData
    \/ GrayLeft
    \/ GrayRight
    \/ BlockMatch
    \/ MedianFilter
    \/ GaussianBlur
    \/ Normalize
    \/ FillAndReturn

Spec == Init /\ [][Next]_vars

(***************************************************************************)
(* createFallbackDepthMap, statement by statement.                         *)
(***************************************************************************)

\* centerBias and edgeWeight are held in tenths: 3 stands for 0.3.
WeightDen == 10

fallbackOptionsOf(c, e) == [centerBias |-> c, edgeWeight |-> e]

fallbackInputOf(o, i) == [options |-> o, img |-> i]

\* The defaults of createFallbackDepthMap and the options the app passes.
FallbackOptions == {fallbackOptionsOf(3, 5), fallbackOptionsOf(4, 6)}

\* Every 3 x 3 image in black and white, under the default options.
FallbackInputsSquare ==
    {fallbackInputOf(fallbackOptionsOf(3, 5), i) : i \in Images(3, 3, GrayPixels)}

\* Any two weights a caller can pass, on a white 4 x 3 image with one black
\* column.
FallbackInputsAnyOptions ==
    {fallbackInputOf(fallbackOptionsOf(c, e),
                     grayImage(4, 3, [i \in 0..11 |-> IF i % 4 = 0 THEN 0 ELSE 255])) :
        c \in {-5, 0, 3, 10, 15}, e \in {-5, 0, 5, 10, 15}}

\* Images of any size 0..2 x 0..2, of one colour.
FallbackInputsAnySize ==
    {fallbackInputOf(o, i) :
        o \in FallbackOptions,
        i \in UNION {Images(w, h, {c}) : w \in 0..2, h \in 0..2, c \in Palette}}

FallbackInputs ==
    FallbackInputsSquare \cup FallbackInputsAnyOptions \cup FallbackInputsAnySize

\* The state at the call createFallbackDepthMap(in.img, in.options) on a new
\* DepthProcessor.
FallbackCalled(in) ==
    /\ pc = "getImage"
    /\ options = in.options
    /\ img = in.img
    /\ canvas = newCanvas
    /\ imageData = Null /\ gray = Null /\ edges = Null /\ radial = Null
    /\ depth = Null /\ smoothed = Null /\ normalized = Null
    /\ depthImageData = Null
    /\ thrown = "none"
    /\ stages = <<>>
    /\ leftImg = Null /\ rightImg = Null /\ leftData = Null /\ rightData = Null
    /\ leftGray = Null /\ rightGray = Null /\ disparity = Null /\ median = Null
    /\ blurred = Null /\ processedDisparity = "disparity"
    /\ call = Null /\ temp = Null /\ result = Null
    /\ heap = Null /\ resultRef = Null

FallbackInit == othersIdle /\ \E in \in FallbackInputs : FallbackCalled(in)

\* const imageData = this.getImageData(img)
FallbackGetImageData ==
    /\ pc = "getImage"
    /\ canvas' = canvasDrawn(canvas, img)
    /\ IF getImageDataThrows(img)
       THEN /\ pc' = "thrown"
            /\ thrown' = "IndexSizeError"
            /\ UNCHANGED imageData
       ELSE /\ pc' = "gray"
            /\ imageData' = getImageData(canvas', img)
            /\ UNCHANGED thrown
    /\ UNCHANGED <<options, img, gray, edges, radial, depth, smoothed, normalized,
                   depthImageData, stages, stereoVars, stageVars,
                   otherVars>>

\* const gray = this.toGrayscale(imageData)
FallbackGray ==
    /\ pc = "gray"
    /\ gray' = toGrayscale(imageData)
    /\ stages' = Append(stages, "grayscale")
    /\ pc' = "sobel"
    /\ UNCHANGED <<options, img, canvas, imageData, edges, radial, depth, smoothed,
                   normalized, depthImageData, thrown, stereoVars, stageVars,
                   otherVars>>

\* const edges = this.sobelEdges(gray, width, height)
FallbackSobel ==
    /\ pc = "sobel"
    /\ edges' = sobelEdges(gray, img.width, img.height)
    /\ stages' = Append(stages, "sobelEdges")
    /\ pc' = "radial"
    /\ UNCHANGED <<options, img, canvas, imageData, gray, radial, depth, smoothed,
                   normalized, depthImageData, thrown, stereoVars, stageVars,
                   otherVars>>

\* const radial = new Float32Array(width * height), and its loops
FallbackRadial ==
    /\ pc = "radial"
    /\ radial' = radialGradient(img.width, img.height)
    /\ stages' = Append(stages, "radial")
    /\ pc' = "combine"
    /\ UNCHANGED <<options, img, canvas, imageData, gray, edges, depth, smoothed,
                   normalized, depthImageData, thrown, stereoVars, stageVars,
                   otherVars>>

\* depth[i] = edges[i] * edgeWeight + radial[i] * centerBias
combine(edge, rad, o) ==
    RoundDiv(edge * o.edgeWeight + floatToGrid(rad) * o.centerBias, WeightDen)

\* const depth = new Float32Array(width * height), and its loop
FallbackCombine ==
    /\ pc = "combine"
    /\ depth' = [i \in 0..(img.width * img.height - 1) |->
                    combine(edges[i], radial[i], options)]
    /\ stages' = Append(stages, "combine")
    /\ pc' = "smooth"
    /\ UNCHANGED <<options, img, canvas, imageData, gray, edges, radial, smoothed,
                   normalized, depthImageData, thrown, stereoVars, stageVars,
                   otherVars>>

\* The sigma of the stereo pipeline's blur.
fallbackSigmaOfStereo == 2

\* The sigma createFallbackDepthMap passes to gaussianBlur.
fallbackSigma == 5

\* const smoothed = this.gaussianBlur(depth, width, height, 5)
FallbackBlur ==
    /\ pc = "smooth"
    /\ smoothed' = gaussianBlur(depth, img.width, img.height, fallbackSigma)
    /\ stages' = Append(stages, "gaussianBlur")
    /\ pc' = "normalizeSmoothed"
    /\ UNCHANGED <<options, img, canvas, imageData, gray, edges, radial, depth,
                   normalized, depthImageData, thrown, stereoVars, stageVars,
                   otherVars>>

\* const normalized = this.normalizeArray(smoothed)
FallbackNormalize ==
    /\ pc = "normalizeSmoothed"
    /\ normalized' = normalizeArray(smoothed)
    /\ stages' = Append(stages, "normalizeArray")
    /\ pc' = "fillFallback"
    /\ UNCHANGED <<options, img, canvas, imageData, gray, edges, radial, depth,
                   smoothed, depthImageData, thrown, stereoVars, stageVars,
                   otherVars>>

\* The depth canvas, createImageData(width, height), the fill loop and return.
FallbackFill ==
    /\ pc = "fillFallback"
    /\ depthImageData' = depthFill(normalized, 1, img.width, img.height)
    /\ stages' = Append(stages, "fill")
    /\ pc' = "returned"
    /\ UNCHANGED <<options, img, canvas, imageData, gray, edges, radial, depth,
                   smoothed, normalized, thrown, stereoVars, stageVars,
                   otherVars>>

NextFallback ==
    \/ FallbackGetImageData
    \/ FallbackGray
    \/ FallbackSobel
    \/ FallbackRadial
    \/ FallbackCombine
    \/ FallbackBlur
    \/ FallbackNormalize
    \/ FallbackFill

SpecFallback == FallbackInit /\ [][NextFallback]_vars

\* A call of either pipeline on a new DepthProcessor.
InitPipelines == Init \/ FallbackInit

NextPipelines == Next \/ NextFallback

SpecPipelines == InitPipelines /\ [][NextPipelines]_vars

(***************************************************************************)
(* One DepthProcessor called several times, as the app calls its one       *)
(* this.depthProcessor for every file.  computeDepthMap is async but has   *)
(* no await and createFallbackDepthMap is synchronous: the body of a call  *)
(* runs to its end before another call can start, so the calls follow one  *)
(* another, each finding this.canvas as the last one left it.              *)
(***************************************************************************)

\* A transparent pixel whose samples are white.
clearWhite == <<255, 255, 255, 0>>

SharedPalette == {grayPixel(255), grayPixel(0), clearWhite}

\* The 3 x 3 images, white but for the first pixel.
SharedSquares ==
    {imageOf(3, 3, [i \in 0..8 |-> IF i = 0 THEN c ELSE grayPixel(255)]) :
        c \in SharedPalette}

\* The 2 x 1 image of the pixels a and b.
rowOf(a, b) == imageOf(2, 1, [i \in 0..1 |-> IF i = 0 THEN a ELSE b])

\* Pairs of a 2 x 1 left image, opaque or half transparent, and of a right
\* image of 2 x 1, 1 x 1 or 0 x 1.
SharedStereoCalls ==
    {[kind |-> "stereo", in |-> inputOf(optionsOf(1, 1, TRUE, TRUE), l, r)] :
        l \in {rowOf(grayPixel(255), grayPixel(255)), rowOf(grayPixel(0), clearWhite)},
        r \in {rowOf(grayPixel(255), clearWhite),
               rowOf(clearWhite, grayPixel(0)),
               imageOf(1, 1, [i \in {0} |-> clearWhite]),
               imageOf(0, 1, <<>>)}}

\* Single images of 1 x 1 and 3 x 3, with the options of the app.
SharedFallbackCalls ==
    {[kind |-> "fallback", in |-> fallbackInputOf(fallbackOptionsOf(4, 6), i)] :
        i \in Images(1, 1, {grayPixel(0)}) \cup SharedSquares}

SharedCalls == SharedStereoCalls \cup SharedFallbackCalls

\* How many calls the processor receives.
CallsMade == 2

\* The first of the calls cs is made on a new DepthProcessor.
SharedInit ==
    \E cs \in [1..CallsMade -> SharedCalls] :
        /\ made = <<cs[1]>>
        /\ pending = Tail(cs)
        /\ IF cs[1].kind = "stereo" THEN Called(cs[1].in)
           ELSE FallbackCalled(cs[1].in)
    /\ parserIdle /\ appIdle

\* The call before has returned or thrown; the next one starts with locals
\* of its own and the canvas as it is.
CallNext ==
    /\ pc \in {"returned", "thrown"}
    /\ pending # <<>>
    /\ made' = Append(made, Head(pending))
    /\ pending' = Tail(pending)
    /\ options' = Head(pending).in.options
    /\ IF Head(pending).kind = "stereo"
       THEN /\ pc' = "getLeft"
            /\ leftImg' = Head(pending).in.leftImg
            /\ rightImg' = Head(pending).in.rightImg
            /\ img' = Null
       ELSE /\ pc' = "getImage"
            /\ img' = Head(pending).in.img
            /\ leftImg' = Null /\ rightImg' = Null
    /\ leftData' = Null /\ rightData' = Null
    /\ leftGray' = Null /\ rightGray' = Null
    /\ disparity' = Null /\ median' = Null /\ blurred' = Null /\ normalized' = Null
    /\ processedDisparity' = "disparity"
    /\ depthImageData' = Null
    /\ thrown' = "none"
    /\ stages' = <<>>
    /\ imageData' = Null /\ gray' = Null /\ edges' = Null
    /\ radial' = Null /\ depth' = Null /\ smoothed' = Null
    /\ UNCHANGED <<canvas, stageVars, parserVars, appVars>>

NextShared ==
    \/ CallNext
    \/ Next
    \/ NextFallback

SpecShared == SharedInit /\ [][NextShared]_vars

(***************************************************************************)
(* MPOParser.parse and findJPEGBoundaries, one loop iteration at a step.   *)
(***************************************************************************)

\* No call of the DepthProcessor is under way.
depthIdle ==
    /\ options = Null
    /\ canvas = newCanvas
    /\ leftImg = Null /\ rightImg = Null /\ leftData = Null /\ rightData = Null
    /\ leftGray = Null /\ rightGray = Null /\ disparity = Null /\ median = Null
    /\ blurred = Null /\ normalized = Null /\ processedDisparity = "disparity"
    /\ depthImageData = Null
    /\ thrown = "none"
    /\ stages = <<>>
    /\ img = Null /\ imageData = Null /\ gray = Null /\ edges = Null
    /\ radial = Null /\ depth = Null /\ smoothed = Null
    /\ call = Null /\ temp = Null /\ result = Null
    /\ heap = Null /\ resultRef = Null
    /\ sharedIdle

\* The bytes the scan tells apart: the marker prefix, SOI, EOI, SOS, a
\* restart marker, and 0 and 2, which are stuffing, a length, or a marker
\* with a length field.
ScanBytes == {255, 216, 217, 218, 208, 0, 2}

\* The longest buffer of arbitrary bytes, and the most pieces of a buffer
\* made of pieces.
MaxBytes == 4

MaxPieces == 6

\* The pieces: SOI, EOI, a byte of another kind, and a scan header of length 2
\* with its two bytes.
Pieces == {<<255, 216>>, <<255, 217>>, <<0>>, <<255, 218, 0, 2>>}

RECURSIVE joined(_)
\* The pieces ps one after the other.
joined(ps) == IF ps = <<>> THEN <<>> ELSE Head(ps) \o joined(Tail(ps))

\* The Uint8Array of the bytes bs.
bytesOf(bs) == [i \in 0..(Len(bs) - 1) |-> bs[i + 1]]

\* new Uint8Array(buffer), for every buffer of up to MaxBytes bytes and every
\* buffer of up to MaxPieces pieces.
Buffers ==
    UNION {{bytesOf(bs) : bs \in [1..n -> ScanBytes]} : n \in 0..MaxBytes}
    \cup UNION {{bytesOf(joined(ps)) : ps \in [1..n -> Pieces]} : n \in 0..MaxPieces}

\* data.length
lengthOf(d) == Cardinality(DOMAIN d)

\* parse(buffer) at the call of findJPEGBoundaries(uint8).
ParserInit ==
    /\ depthIdle
    /\ appIdle
    /\ \E b \in Buffers : uint8 = b
    /\ pc = "outerLoop"
    /\ pos = 0
    /\ start = 0
    /\ boundaries = <<>>
    /\ images = Null

parserFrame ==
    UNCHANGED <<options, leftImg, rightImg, canvas, leftData, rightData, leftGray,
                rightGray, disparity, median, blurred, normalized,
                processedDisparity, depthImageData, thrown, stages,
                fallbackVars, stageVars, sharedVars, appVars, uint8>>

\* data[pos] === 0xFF && data[pos + 1] === 0xD8
atSOI(d, p) == d[p] = 255 /\ d[p + 1] = 216

\* (data[pos] << 8) | data[pos + 1]
lengthField(d, p) == d[p] * 256 + d[p + 1]

\* pos += 2; if (pos + 1 < length) pos += the length field at pos
skipSegment(d, p) ==
    IF p + 3 < lengthOf(d) THEN p + 2 + lengthField(d, p + 2) ELSE p + 2

\* One iteration of the outer while: an SOI opens an image and the inner
\* loop, any other byte is stepped over.
OuterIterate ==
    /\ pc = "outerLoop" /\ pos < lengthOf(uint8) - 1
    /\ IF atSOI(uint8, pos)
       THEN /\ start' = pos
            /\ pos' = pos + 2
            /\ pc' = "innerLoop"
       ELSE /\ pos' = pos + 1
            /\ UNCHANGED <<start, pc>>
    /\ UNCHANGED <<boundaries, images>>
    /\ parserFrame

\* The outer while ends: return boundaries.
OuterExit ==
    /\ pc = "outerLoop" /\ ~(pos < lengthOf(uint8) - 1)
    /\ pc' = "found"
    /\ UNCHANGED <<pos, start, boundaries, images>>
    /\ parserFrame

\* The end of an image that stops short of its EOI marker.
endBeforeMarker(p) == p

\* end: pos + 2, the position after the EOI marker at pos.
endOfImage(p) == p + 2

\* The padding byte of 0xFF 0xFF is not stepped over.
afterPaddingStuck(p) == p

\* pos++ on 0xFF 0xFF

afterPadding(p) == p + 1

\* One iteration of the inner while.
InnerIterate ==
    /\ pc = "innerLoop" /\ pos < lengthOf(uint8) - 1
    /\ LET marker == uint8[pos + 1]
       IN  IF uint8[pos] # 255
           THEN pos' = pos + 1 /\ UNCHANGED <<pc, boundaries>>
           ELSE IF marker = 255
           THEN pos' = afterPadding(pos) /\ UNCHANGED <<pc, boundaries>>
           ELSE IF marker = 217
           THEN /\ boundaries' = Append(boundaries,
                                      [start |-> start, end |-> endOfImage(pos)])
                /\ pos' = pos + 2
                /\ pc' = "outerLoop"
           ELSE IF marker >= 208 /\ marker <= 215
           THEN pos' = pos + 2 /\ UNCHANGED <<pc, boundaries>>
           ELSE IF marker = 216
           THEN pc' = "outerLoop" /\ UNCHANGED <<pos, boundaries>>
           ELSE IF marker = 218
           THEN /\ pos' = skipSegment(uint8, pos)
                /\ pc' = "scanLoop"
                /\ UNCHANGED boundaries
           ELSE pos' = skipSegment(uint8, pos) /\ UNCHANGED <<pc, boundaries>>
    /\ UNCHANGED <<start, images>>
    /\ parserFrame

\* The inner while ends with the data; the image is not recorded.
InnerExit ==
    /\ pc = "innerLoop" /\ ~(pos < lengthOf(uint8) - 1)
    /\ pc' = "outerLoop"
    /\ UNCHANGED <<pos, start, boundaries, images>>
    /\ parserFrame

\* One iteration of the while over the entropy-coded data: it stops at a
\* marker, which the inner loop reads next.
ScanIterate ==
    /\ pc = "scanLoop" /\ pos < lengthOf(uint8) - 1
    /\ IF uint8[pos] = 255 /\ uint8[pos + 1] # 0 /\ uint8[pos + 1] # 255
       THEN pc' = "innerLoop" /\ UNCHANGED pos
       ELSE pos' = pos + 1 /\ UNCHANGED pc
    /\ UNCHANGED <<start, boundaries, images>>
    /\ parserFrame

ScanExit ==
    /\ pc = "scanLoop" /\ ~(pos < lengthOf(uint8) - 1)
    /\ pc' = "innerLoop"
    /\ UNCHANGED <<pos, start, boundaries, images>>
    /\ parserFrame

\* parseMPFIndex(uint8, buffer): its loop pushes nothing, images is returned
\* as it was created.
parseMPFIndex(d) == <<>>

\* buffer.slice(from, to), as the range of bytes the Blob holds.
sliceOf(from, to) == [start |-> from, end |-> to]

\* Every image is extracted, however many there are.
extractAll(bs) == [i \in 1..Len(bs) |-> sliceOf(bs[i].start, bs[i].end)]

\* for (let i = 0; i < Math.min(boundaries.length, 2); i++) images.push(...)
extractPair(bs) == [i \in 1..Min(Len(bs), 2) |-> sliceOf(bs[i].start, bs[i].end)]

\* The rest of parse: the first two boundaries, or the MPF index, or the
\* whole buffer as one image.
ParseReturn ==
    /\ pc = "found"
    /\ images' = IF Len(boundaries) >= 2 THEN extractPair(boundaries)
                 ELSE IF Len(parseMPFIndex(uint8)) >= 2 THEN parseMPFIndex(uint8)
                 ELSE <<sliceOf(0, lengthOf(uint8))>>
    /\ pc' = "parsed"
    /\ UNCHANGED <<pos, start, boundaries>>
    /\ parserFrame

NextParser ==
    \/ OuterIterate
    \/ OuterExit
    \/ InnerIterate
    \/ InnerExit
    \/ ScanIterate
    \/ ScanExit
    \/ ParseReturn

SpecParser == ParserInit /\ [][NextParser]_vars

\* The loops are run by the one thread of the page, which does not stop
\* while a step is left to take.
SpecParserFair == SpecParser /\ WF_vars(NextParser)

(***************************************************************************)
(* WigglegramApp and its WiggleViewer: the files dropped on the page, the  *)
(* navigation and the input mode.  A step is a handler run to its end, or  *)
(* one file of the loop of handleFiles, which awaits between files.        *)
(***************************************************************************)

\* The most image sets the viewer is given.
MaxSets == 2

\* The value of a number that is not one: of x % 0, and of what is computed
\* from it.  It stands apart from every index and every sum of indices.
NaN == 0 - 1000000

\* a + b
plus(a, b) == IF a = NaN \/ b = NaN THEN NaN ELSE a + b

\* a % n
remainder(a, n) ==
    IF a = NaN \/ n = NaN \/ n = 0 THEN NaN
    ELSE IF a >= 0 THEN a % n ELSE 0 - ((0 - a) % n)

\* a < b and a >= b, both false of NaN.
lessThan(a, b) == a # NaN /\ b # NaN /\ a < b

atLeast(a, b) == a # NaN /\ b # NaN /\ a >= b

\* new WiggleViewer(container, options), with the default options; the
\* sensitivity in tenths, the smoothing in hundredths and the rotations in
\* thousandths; animationId is 0 for null, the handles of
\* requestAnimationFrame being positive.
newViewer ==
    [meshResolution |-> 128,
     sensitivity |-> 15,
     smoothing |-> 85,
     imageSets |-> <<>>,
     currentIndex |-> 0,
     targetRotationX |-> 0,
     targetRotationY |-> 0,
     currentRotationX |-> 0,
     currentRotationY |-> 0,
     animationId |-> 0,
     useGyroscope |-> FALSE,
     hasGyroPermission |-> FALSE,
     gyroAvailable |-> FALSE,
     calibrationBeta |-> 0,
     calibrationGamma |-> 0,
     isCalibrated |-> FALSE,
     isRunning |-> FALSE]

\* showImageSet(index): what the viewer is after it, and whether it threw.
\* this.imageSets[index] is undefined when index is NaN, and reading its
\* colorTexture throws a TypeError after currentIndex was assigned.
showImageSet(v, index) ==
    IF lessThan(index, 0) \/ atLeast(index, Len(v.imageSets))
    THEN [viewer |-> v, threw |-> FALSE]
    ELSE [viewer |-> [v EXCEPT !.currentIndex = index],
          threw |-> index = NaN \/ index + 1 \notin DOMAIN v.imageSets]

\* next() moves by two.
nextSkipping(v) ==
    showImageSet(v, remainder(plus(v.currentIndex, 2), Len(v.imageSets)))

\* next()
next(v) ==
    showImageSet(v, remainder(plus(v.currentIndex, 1), Len(v.imageSets)))

\* prev()
prev(v) ==
    showImageSet(v, remainder(plus(plus(v.currentIndex, 0 - 1), Len(v.imageSets)),
                              Len(v.imageSets)))

\* addImageSet(colorImg, depthCanvas)
addImageSet(v, colorImg, depthCanvas) ==
    LET w == [v EXCEPT !.imageSets =
                  Append(@, [colorTexture |-> colorImg, depthTexture |-> depthCanvas])]
    IN  IF Len(w.imageSets) = 1 THEN showImageSet(w, 0).viewer ELSE w

\* setMeshResolution(value)
setMeshResolution(v, value) ==
    LET w == [v EXCEPT !.meshResolution = value]
    IN  IF Len(w.imageSets) > 0 THEN showImageSet(w, w.currentIndex)
        ELSE [viewer |-> w, threw |-> FALSE]

\* toLowerCase of one character of the names below.
lowerCase(ch) ==
    CASE ch = "M" -> "m" [] ch = "P" -> "p" [] ch = "O" -> "o"
      [] ch = "J" -> "j" [] ch = "G" -> "g" [] OTHER -> ch

\* name.toLowerCase()
toLowerCase(name) == [i \in 1..Len(name) |-> lowerCase(name[i])]

\* name.split('.').pop(): what follows the last dot, or the whole name.
lastPiece(name) ==
    LET dots == {i \in 1..Len(name) : name[i] = "."}
        from == IF dots = {} THEN 1
                ELSE (CHOOSE i \in dots : \A j \in dots : j <= i) + 1
    IN  SubSeq(name, from, Len(name))

\* const ext = file.name.toLowerCase().split('.').pop()
ext(file) == lastPiece(toLowerCase(file.name))

mpo == <<"m", "p", "o">>

\* ['jpg', 'jpeg', 'png']
singleImages == {<<"j", "p", "g">>, <<"j", "p", "e", "g">>, <<"p", "n", "g">>}

\* The files dropped: the name, how many images MPOParser.parseFile returns
\* for the file, and whether the browser decodes them.
DroppedFiles ==
    {[name |-> <<"a", ".", "M", "P", "O">>, images |-> 2, decodes |-> TRUE],
     [name |-> <<"b", ".", "j", "p", "g", ".", "m", "p", "o">>, images |-> 1,
      decodes |-> TRUE],
     [name |-> <<"c", ".", "J", "P", "G">>, images |-> 1, decodes |-> TRUE],
     [name |-> <<"d", ".", "j", "p", "e", "g">>, images |-> 1, decodes |-> FALSE],
     [name |-> <<"e", ".", "g", "i", "f">>, images |-> 1, decodes |-> TRUE]}

\* More names a file may have, each with one and with two images in it.
NamedFiles ==
    DroppedFiles \cup
    {[name |-> n, images |-> i, decodes |-> TRUE] :
        n \in {<<"m", "p", "o">>, <<"f", ".", "m", "p", "o">>,
                <<"g", ".", "M", "p", "O", ".", "p", "n", "g">>,
                <<"h", ".", "p", "n", "g">>, <<"i", ".", "j", "p", "e", "g">>,
                <<"j", ".", "m", "p", "o", ".", "e">>, <<"k", ".">>,
                <<".", "j", "p", "g">>, <<"l", "j", "p", "g">>},
        i \in {1, 2}}

\* The browsers: without DeviceOrientationEvent, with it, and with it and its
\* requestPermission.
Browsers == {"absent", "present", "requestPermission"}

\* The page is loaded: no viewer yet, the drop zone shown, the text of
\* toggleModeBtn the one of the page's markup, no animation frame requested
\* and none rendered.
AppInit ==
    /\ depthIdle
    /\ parserIdle
    /\ pc = "idle"
    /\ viewer = Null
    /\ files = <<>>
    /\ elements = [viewerArea |-> "hidden", permissionModal |-> "hidden",
                   toggleModeBtn |-> "markup"]
    /\ \E b \in Browsers :
           window = [DeviceOrientationEvent |-> b, listeners |-> {},
                     animationFrames |-> {}, requested |-> 0, rendered |-> 0]
    /\ toggled = FALSE

appFrame ==
    UNCHANGED <<options, leftImg, rightImg, canvas, leftData, rightData, leftGray,
                rightGray, disparity, median, blurred, normalized,
                processedDisparity, depthImageData, stages,
                fallbackVars, stageVars, sharedVars, parserVars>>

\* handleFiles(files) up to its loop, while no other call of it is under way.
HandleFiles ==
    /\ pc = "idle"
    /\ \E n \in 0..MaxSets : \E fs \in [1..n -> DroppedFiles] :
           /\ (IF viewer = Null THEN 0 ELSE Len(viewer.imageSets)) + n <= MaxSets
           /\ IF fs = <<>>
              THEN UNCHANGED <<pc, viewer, files, elements>>
              ELSE /\ viewer' = IF viewer = Null THEN newViewer ELSE viewer
                   /\ elements' = [elements EXCEPT !.viewerArea = "shown"]
                   /\ files' = fs
                   /\ pc' = "handleFiles"
    /\ UNCHANGED <<thrown, window, toggled>>
    /\ appFrame

\* this.depthProcessor.computeDepthMap(leftImg, rightImg, {...}).depthCanvas
stereoDepth ==
    [by |-> "computeDepthMap",
     options |-> [blockSize |-> 11, maxDisparity |-> 64, smoothing |-> TRUE]]

\* this.depthProcessor.createFallbackDepthMap(img, {...}).depthCanvas, with
\* the weights in percent.
fallbackDepth ==
    [by |-> "createFallbackDepthMap",
     options |-> [centerBias |-> 40, edgeWeight |-> 60]]

\* processWithFallbackDepth(img, filename)
processWithFallbackDepth(v, image) == addImageSet(v, image, fallbackDepth)

\* Every MPO file goes through the stereo pipeline.
processMPOFileAsPair(v, file) == addImageSet(v, "leftImg", stereoDepth)

\* processMPOFile(file), the images decoded.
processMPOFile(v, file) ==
    IF file.images < 2 THEN processWithFallbackDepth(v, "img")
    ELSE addImageSet(v, "leftImg", stereoDepth)

\* processSingleImage(file), the image decoded.
processSingleImage(v, file) == processWithFallbackDepth(v, "img")

\* The body of the loop, the images decoded.
processFile(v, file) ==
    IF ext(file) = mpo THEN processMPOFile(v, file)
    ELSE IF ext(file) \in singleImages THEN processSingleImage(v, file)
    ELSE v

\* One file of the loop.  loadImage rejects for an image that does not
\* decode: the catch ends handleFiles, the viewer is not started.
ProcessFile ==
    /\ pc = "handleFiles" /\ files # <<>>
    /\ LET file == Head(files)
           routed == ext(file) = mpo \/ ext(file) \in singleImages
       IN  IF routed /\ ~file.decodes
           THEN /\ files' = <<>>
                /\ pc' = "idle"
                /\ UNCHANGED viewer
           ELSE /\ files' = Tail(files)
                /\ viewer' = processFile(viewer, file)
                /\ UNCHANGED pc
    /\ UNCHANGED <<thrown, elements, window, toggled>>
    /\ appFrame

\* startMouseInput()
startMouseInput(v, w) ==
    [viewer |-> [v EXCEPT !.useGyroscope = FALSE],
     window |-> [w EXCEPT !.listeners = @ \cup {"mousemove", "touchmove"}]]

\* startGyroscope(), permission being what the user answers if asked.
startGyroscope(v, w, permission) ==
    LET granted == IF w.DeviceOrientationEvent = "requestPermission"
                   THEN permission = "granted" ELSE TRUE
    IN  IF granted
        THEN [viewer |-> [v EXCEPT !.hasGyroPermission = TRUE, !.useGyroscope = TRUE],
              window |-> [w EXCEPT !.listeners = @ \cup {"deviceorientation"}],
              success |-> TRUE]
        ELSE [viewer |-> [v EXCEPT !.hasGyroPermission = FALSE],
              window |-> w, success |-> FALSE]

\* current + (target - current) * (1 - smoothing), rounded down to the
\* thousandth.
lerp(current, target, smoothing) ==
    current + ((target - current) * (100 - smoothing)) \div 100

\* The rotation as it is.
unclampedRotation(x) == x

\* Math.max(-1.5, Math.min(1.5, x)), in thousandths
clampRotation(x) == Max(0 - 1500, Min(1500, x))

\* animate(): the next frame is requested, the rotation moves towards its
\* target and the scene is rendered.
animate(v, w) ==
    IF ~v.isRunning THEN [viewer |-> v, window |-> w]
    ELSE LET id == w.requested + 1
         IN  [viewer |->
                  [v EXCEPT !.animationId = id,
                            !.currentRotationX = clampRotation(
                                lerp(@, v.targetRotationX, v.smoothing)),
                            !.currentRotationY = clampRotation(
                                lerp(@, v.targetRotationY, v.smoothing))],
              window |->
                  [w EXCEPT !.requested = id,
                            !.animationFrames = @ \cup {id},
                            !.rendered = @ + 1]]

\* start() whatever isRunning is.
viewerStartAlways(v, w) == animate([v EXCEPT !.isRunning = TRUE], w)

\* start()
viewerStart(v, w) ==
    IF v.isRunning THEN [viewer |-> v, window |-> w]
    ELSE animate([v EXCEPT !.isRunning = TRUE], w)

\* The loop is done: updateCounter(), this.viewer.start(), checkGyroscope().
HandleFilesEnd ==
    /\ pc = "handleFiles" /\ files = <<>>
    /\ LET started == viewerStart(viewer, window)
           DOE == window.DeviceOrientationEvent
       IN  IF DOE = "absent"
           THEN /\ viewer' = startMouseInput(started.viewer, started.window).viewer
                /\ window' = startMouseInput(started.viewer, started.window).window
                /\ elements' = [elements EXCEPT !.toggleModeBtn = "Touch"]
           ELSE IF DOE = "requestPermission"
           THEN /\ viewer' = started.viewer
                /\ window' = started.window
                /\ elements' = [elements EXCEPT !.permissionModal = "shown"]
           ELSE /\ viewer' = startGyroscope(started.viewer, started.window,
                                            "granted").viewer
                /\ window' = startGyroscope(started.viewer, started.window,
                                            "granted").window
                /\ UNCHANGED elements
    /\ pc' = "idle"
    /\ UNCHANGED <<thrown, files, toggled>>
    /\ appFrame

\* A click on requestPermBtn, and the user's answer to the browser.
ClickRequestPerm ==
    /\ elements.permissionModal = "shown"
    /\ \E permission \in {"granted", "denied"} :
           LET s == startGyroscope(viewer, window, permission)
               hidden == [elements EXCEPT !.permissionModal = "hidden"]
           IN  IF s.success
               THEN /\ viewer' = s.viewer
                    /\ window' = s.window
                    /\ elements' = hidden
               ELSE /\ viewer' = startMouseInput(s.viewer, s.window).viewer
                    /\ window' = startMouseInput(s.viewer, s.window).window
                    /\ elements' = [hidden EXCEPT !.toggleModeBtn = "Touch"]
    /\ UNCHANGED <<pc, thrown, files, toggled>>
    /\ appFrame

\* A click on skipPermBtn.
ClickSkipPerm ==
    /\ elements.permissionModal = "shown"
    /\ elements' = [elements EXCEPT !.permissionModal = "hidden",
                                    !.toggleModeBtn = "Touch"]
    /\ viewer' = startMouseInput(viewer, window).viewer
    /\ window' = startMouseInput(viewer, window).window
    /\ UNCHANGED <<pc, thrown, files, toggled>>
    /\ appFrame

\* toggleMode(), permission being what the user answers if asked: the
\* viewer and the window once the answer is there, and the value returned.
toggleMode(v, w, permission) ==
    IF v.useGyroscope
    THEN LET removed == [w EXCEPT !.listeners = @ \ {"deviceorientation"}]
             s == startMouseInput(v, removed)
         IN  [viewer |-> s.viewer, window |-> s.window, returned |-> FALSE]
    ELSE LET removed == [w EXCEPT !.listeners = @ \ {"mousemove", "touchmove"}]
             s == startGyroscope(v, removed, permission)
         IN  [viewer |-> s.viewer, window |-> s.window, returned |-> TRUE]

\* A click on toggleModeBtn: isGyro = toggleMode() is written to the button.
ClickToggleMode ==
    /\ viewer # Null
    /\ toggled' = TRUE
    /\ \E permission \in {"granted", "denied"} :
           LET t == toggleMode(viewer, window, permission)
           IN  /\ viewer' = t.viewer
               /\ window' = t.window
               /\ elements' = [elements EXCEPT !.toggleModeBtn =
                                   IF t.returned THEN "Gyro" ELSE "Touch"]
    /\ UNCHANGED <<pc, thrown, files>>
    /\ appFrame

\* What a handler that may throw leaves behind.
afterCall(r) ==
    /\ viewer' = r.viewer
    /\ thrown' = IF r.threw THEN "TypeError" ELSE thrown

navigationFrame ==
    /\ UNCHANGED <<pc, files, elements, window, toggled>>
    /\ appFrame

\* Clicks on prevBtn and nextBtn: if (this.viewer) this.viewer.prev().
ClickPrev == viewer # Null /\ afterCall(prev(viewer)) /\ navigationFrame

ClickNext == viewer # Null /\ afterCall(next(viewer)) /\ navigationFrame

\* keydown of ArrowLeft and ArrowRight, ignored while viewerArea is hidden.
KeyArrowLeft ==
    /\ elements.viewerArea = "shown"
    /\ viewer # Null
    /\ afterCall(prev(viewer))
    /\ navigationFrame

KeyArrowRight ==
    /\ elements.viewerArea = "shown"
    /\ viewer # Null
    /\ afterCall(next(viewer))
    /\ navigationFrame

\* The options of meshResSelect.
MeshResolutions == {64, 128}

\* change of meshResSelect: this.viewer.setMeshResolution(value).
ChangeMeshResolution ==
    /\ viewer # Null
    /\ \E value \in MeshResolutions : afterCall(setMeshResolution(viewer, value))
    /\ navigationFrame

\* this.viewer.showImageSet(index), called from outside the app.
CallShowImageSet ==
    /\ viewer # Null
    /\ \E index \in (0 - 1)..MaxSets : afterCall(showImageSet(viewer, index))
    /\ navigationFrame

\* The positions of the mouse and of the touch: (clientX - centerX) / centerX
\* and the same of Y, in percent.
MousePointers == {[offsetX |-> 40, offsetY |-> 0 - 100]}

\* The finger is where the mouse is.
TouchPointers == MousePointers

\* The pointer moves the target in every mode.
handleMouseMoveAlways(v, event) ==
    [v EXCEPT !.targetRotationX = event.offsetY * v.sensitivity,
              !.targetRotationY = event.offsetX * v.sensitivity]

\* handleMouseMove(event) and handleTouchMove(event) with one touch.
handleMouseMove(v, event) ==
    IF v.useGyroscope /\ v.gyroAvailable THEN v
    ELSE [v EXCEPT !.targetRotationX = event.offsetY * v.sensitivity,
                   !.targetRotationY = event.offsetX * v.sensitivity]

inputFrame ==
    /\ UNCHANGED <<pc, thrown, files, elements, window, toggled>>
    /\ appFrame

\* The viewer after the browser dispatched an event of the type: the
\* listener runs if it is registered.
dispatched(v, w, type, event) ==
    IF type \in w.listeners THEN handleMouseMove(v, event) ELSE v

\* The browser dispatches mousemove, and touchmove with one touch.
MouseMove(event) ==
    /\ viewer # Null
    /\ viewer' = dispatched(viewer, window, "mousemove", event)
    /\ inputFrame

TouchMove(event) ==
    /\ viewer # Null
    /\ viewer' = dispatched(viewer, window, "touchmove", event)
    /\ inputFrame

\* The deviceorientation events, null being the fields that are null:
\* without a sensor beta and gamma are.
Orientations ==
    {[null |-> {"beta", "gamma"}, beta |-> 0, gamma |-> 0],
     [null |-> {}, beta |-> 10, gamma |-> 0 - 5]}

\* Math.max(-1, Math.min(1, x)), in thousandths
clamp(x) == Max(0 - 1000, Min(1000, x))

\* Every reading with beta and gamma becomes the reference.
handleDeviceOrientationRecalibrating(v, event) ==
    IF event.null # {} THEN v
    ELSE [v EXCEPT !.calibrationBeta = event.beta,
                   !.calibrationGamma = event.gamma,
                   !.isCalibrated = TRUE,
                   !.gyroAvailable = TRUE,
                   !.targetRotationX = 0,
                   !.targetRotationY = 0]

\* handleDeviceOrientation(event); (adjusted / 25) * sensitivity in
\* thousandths is adjusted * 4 * the tenths of the sensitivity.
handleDeviceOrientation(v, event) ==
    IF event.null # {} THEN v
    ELSE LET c == IF v.isCalibrated THEN v
                  ELSE [v EXCEPT !.calibrationBeta = event.beta,
                                 !.calibrationGamma = event.gamma,
                                 !.isCalibrated = TRUE]
         IN  [c EXCEPT !.gyroAvailable = TRUE,
                       !.targetRotationX =
                           clamp((event.beta - c.calibrationBeta) * 4 * c.sensitivity),
                       !.targetRotationY =
                           clamp((event.gamma - c.calibrationGamma) * 4 * c.sensitivity)]

\* The browser dispatches deviceorientation, which it does only if it has
\* the event.
DeviceOrientation ==
    /\ viewer # Null
    /\ window.DeviceOrientationEvent # "absent"
    /\ "deviceorientation" \in window.listeners
    /\ \E event \in Orientations : viewer' = handleDeviceOrientation(viewer, event)
    /\ inputFrame

NextApp ==
    \/ HandleFiles
    \/ ProcessFile
    \/ HandleFilesEnd
    \/ ClickRequestPerm
    \/ ClickSkipPerm
    \/ ClickToggleMode
    \/ ClickPrev
    \/ ClickNext
    \/ KeyArrowLeft
    \/ KeyArrowRight
    \/ ChangeMeshResolution
    \/ CallShowImageSet
    \/ \E event \in MousePointers : MouseMove(event)
    \/ \E event \in TouchPointers : TouchMove(event)
    \/ DeviceOrientation

SpecApp == AppInit /\ [][NextApp]_vars

(***************************************************************************)
(* The viewer on its own: a WiggleViewer is constructed, and its methods   *)
(* are called and the browser dispatches its events and runs its animation *)
(* frames in any order.                                                    *)
(***************************************************************************)

\* The frames rendered in a behaviour.
MaxFrames == 2

\* The values of the sliders: the sensitivity in tenths, the smoothing in
\* hundredths.
SensitivityValues == {0, 30}

SmoothingValues == {0, 50}

\* new WiggleViewer(container, options): options.sensitivity || 1.5 and
\* options.smoothing || 0.85, a value of 0 giving the default.
WiggleViewer(o) ==
    [newViewer EXCEPT
        !.sensitivity = IF o.sensitivity = 0 THEN 15 ELSE o.sensitivity,
        !.smoothing = IF o.smoothing = 0 THEN 85 ELSE o.smoothing]

\* The readings of the sensor, in degrees; one of them has no beta.
Readings ==
    {[null |-> {"beta"}, beta |-> 0, gamma |-> 7],
     [null |-> {}, beta |-> 10, gamma |-> 0 - 5],
     [null |-> {}, beta |-> 20, gamma |-> 0 - 40]}

\* The positions of the pointer, in percent of half the window.
Pointers == {[offsetX |-> 40, offsetY |-> 0 - 100]}

ViewerInit ==
    /\ depthIdle
    /\ parserIdle
    /\ pc = "viewer"
    /\ files = <<>>
    /\ elements = Null
    /\ toggled = FALSE
    /\ window = [DeviceOrientationEvent |-> "present", listeners |-> {},
                 animationFrames |-> {}, requested |-> 0, rendered |-> 0]
    /\ \E s \in SensitivityValues : \E m \in SmoothingValues :
           viewer = WiggleViewer([sensitivity |-> s, smoothing |-> m])

viewerFrame ==
    /\ pc = "viewer"
    /\ UNCHANGED <<pc, thrown, files, elements, toggled>>
    /\ appFrame

\* start(), which renders a frame if the viewer was stopped.
Start ==
    /\ window.rendered < MaxFrames
    /\ viewer' = viewerStart(viewer, window).viewer
    /\ window' = viewerStart(viewer, window).window
    /\ viewerFrame

\* stop()
stop(v, w) ==
    [viewer |-> [v EXCEPT !.isRunning = FALSE, !.animationId = 0],
     window |-> [w EXCEPT !.animationFrames =
                              IF v.animationId # 0 THEN @ \ {v.animationId} ELSE @,
                          !.listeners = {}]]

Stop ==
    /\ viewer' = stop(viewer, window).viewer
    /\ window' = stop(viewer, window).window
    /\ viewerFrame

\* The browser runs a callback of requestAnimationFrame: animate().
AnimationFrame ==
    /\ window.rendered < MaxFrames
    /\ \E id \in window.animationFrames :
           LET w == [window EXCEPT !.animationFrames = @ \ {id}]
           IN  /\ viewer' = animate(viewer, w).viewer
               /\ window' = animate(viewer, w).window
    /\ viewerFrame

\* startGyroscope() where no permission is asked for.
StartGyroscope ==
    /\ viewer' = startGyroscope(viewer, window, "granted").viewer
    /\ window' = startGyroscope(viewer, window, "granted").window
    /\ viewerFrame

\* startMouseInput()
StartMouseInput ==
    /\ viewer' = startMouseInput(viewer, window).viewer
    /\ window' = startMouseInput(viewer, window).window
    /\ viewerFrame

\* calibrate()
calibrate(v) ==
    [v EXCEPT !.isCalibrated = FALSE,
              !.targetRotationX = 0, !.targetRotationY = 0,
              !.currentRotationX = 0, !.currentRotationY = 0]

Calibrate ==
    /\ viewer' = calibrate(viewer)
    /\ UNCHANGED window
    /\ viewerFrame

\* setSensitivity(value) and setSmoothing(value)
SetSensitivity ==
    /\ \E value \in SensitivityValues : viewer' = [viewer EXCEPT !.sensitivity = value]
    /\ UNCHANGED window
    /\ viewerFrame

SetSmoothing ==
    /\ \E value \in SmoothingValues : viewer' = [viewer EXCEPT !.smoothing = value]
    /\ UNCHANGED window
    /\ viewerFrame

\* The browser dispatches deviceorientation to the listener.
Reading ==
    /\ "deviceorientation" \in window.listeners
    /\ \E event \in Readings : viewer' = handleDeviceOrientation(viewer, event)
    /\ UNCHANGED window
    /\ viewerFrame

\* The browser dispatches mousemove or touchmove to its listener.
PointerMove ==
    /\ \E type \in {"mousemove", "touchmove"} : \E event \in Pointers :
           viewer' = dispatched(viewer, window, type, event)
    /\ UNCHANGED window
    /\ viewerFrame

NextViewer ==
    \/ Start
    \/ Stop
    \/ AnimationFrame
    \/ StartGyroscope
    \/ StartMouseInput
    \/ Calibrate
    \/ SetSensitivity
    \/ SetSmoothing
    \/ Reading
    \/ PointerMove

SpecViewer == ViewerInit /\ [][NextViewer]_vars

(***************************************************************************)
(* The stages called on their own: each is a public method of              *)
(* DepthProcessor (the radial gradient is the second loop of               *)
(* createFallbackDepthMap), a function of its arguments alone.             *)
(***************************************************************************)

\* The sizes w x h with 1 <= w, h <= MaxW.
Sizes == (1..MaxW) \X (1..MaxW)

\* The w x h fields with their values in vals.
Fields(w, h, vals) == [0..(w * h - 1) -> vals]

\* The w x h field holding c everywhere.
constantField(w, h, c) == [i \in 0..(w * h - 1) |-> c]

\* toGrayscale on one pixel: every gray k under three alphas, the saturated
\* colours, and two colours whose exact luminosity ends in one half.
GrayscaleCalls ==
    {[fn |-> "toGrayscale",
      imageData |-> imageOf(1, 1, [i \in {0} |-> px])] :
        px \in {<<k, k, k, a>> : k \in 0..255, a \in {0, 128, 255}}
                \cup ({0, 255} \X {0, 255} \X {0, 255} \X {255})
                \cup {<<0, 252, 84, 255>>, <<0, 0, 250, 255>>}}

\* medianFilter on every 3 x 3 and 2 x 2 field of two values and on constant
\* fields of every size, under the kernel sizes 1, 3, 5 and 7.
MedianCalls ==
    {[fn |-> "medianFilter", data |-> f, width |-> 3, height |-> 3, kernelSize |-> k] :
        f \in Fields(3, 3, {0, Fx(1)}), k \in {1, 3, 5}}
    \cup
    {[fn |-> "medianFilter", data |-> f, width |-> 2, height |-> 2, kernelSize |-> k] :
        f \in Fields(2, 2, {Fx(2), 31}), k \in {1, 3, 5, 7}}
    \cup
    {[fn |-> "medianFilter", data |-> constantField(s[1], s[2], c),
      width |-> s[1], height |-> s[2], kernelSize |-> k] :
        s \in Sizes, c \in {0, 31, Fx(7)}, k \in {1, 3, 5, 7}}

\* gaussianBlur on constant fields of every size and on every 3 x 2 and
\* 2 x 3 field of two values, under the two sigmas the pipelines pass.
BlurCalls ==
    {[fn |-> "gaussianBlur", data |-> constantField(s[1], s[2], c),
      width |-> s[1], height |-> s[2], sigma |-> g] :
        s \in Sizes, c \in {0, 37, Fx(1), Fx(255)}, g \in {2, 5}}
    \cup
    UNION {{[fn |-> "gaussianBlur", data |-> f, width |-> s[1], height |-> s[2],
             sigma |-> g] : f \in Fields(s[1], s[2], {0, Fx(10)}), g \in {2, 5}} :
              s \in {<<3, 2>>, <<2, 3>>}}

\* sobelEdges on the constant field of every intensity (3 x 3) and of three
\* intensities (every size), and on every 3 x 3, 3 x 2, 2 x 3 and 2 x 2 field
\* in black and white.
SobelCalls ==
    {[fn |-> "sobelEdges", gray |-> constantField(3, 3, k), width |-> 3, height |-> 3] :
        k \in 0..255}
    \cup
    {[fn |-> "sobelEdges", gray |-> constantField(s[1], s[2], k),
      width |-> s[1], height |-> s[2]] : s \in Sizes, k \in {0, 100, 255}}
    \cup
    UNION {{[fn |-> "sobelEdges", gray |-> f, width |-> s[1], height |-> s[2]] :
               f \in Fields(s[1], s[2], GrayLevels)} : s \in (2..3) \X (2..3)}

\* The width and the height of a 48-megapixel photograph.
LargeW == 8000

LargeH == 6000

\* The radial gradient of every small size at all of its pixels, and of the
\* large size at its centre, two corners and two neighbours a third of the
\* way out.
RadialCalls ==
    {[fn |-> "radial", width |-> s[1], height |-> s[2],
      pixels |-> (0..(s[1] - 1)) \X (0..(s[2] - 1))] : s \in Sizes}
    \cup
    {[fn |-> "radial", width |-> LargeW, height |-> LargeH,
      pixels |-> {<<4000, 3000>>, <<5725, 3000>>, <<5725, 3001>>, <<0, 0>>,
                  <<LargeW - 1, LargeH - 1>>}]}

\* blockMatch on every pair of 3 x 1 fields and on pairs of 3 x 3 fields, the
\* right one constant.
BlockMatchCalls ==
    {[fn |-> "blockMatch", left |-> l, right |-> r, width |-> 3, height |-> 1,
      blockSize |-> 1, maxDisparity |-> m] :
        l \in Fields(3, 1, GrayLevels), r \in Fields(3, 1, GrayLevels), m \in 1..2}
    \cup
    {[fn |-> "blockMatch", left |-> l, right |-> constantField(3, 3, 255),
      width |-> 3, height |-> 3, blockSize |-> b, maxDisparity |-> 1] :
        l \in Fields(3, 3, GrayLevels), b \in {1, 3}}

\* normalizeArray on every field of four elements in three values.
NormalizeCalls ==
    {[fn |-> "normalizeArray", data |-> f] : f \in Fields(2, 2, {0, Fx(1), Fx(3)})}

\* The typed arrays among the arguments of the call c, in their order.
stageArguments(c) ==
    CASE c.fn = "toGrayscale" -> <<c.imageData.data>>
      [] c.fn = "blockMatch" -> <<c.left, c.right>>
      [] c.fn = "sobelEdges" -> <<c.gray>>
      [] c.fn = "radial" -> <<>>
      [] OTHER -> <<c.data>>

\* The stage writes buf over the last array there is and returns that one.
overwriteLast(h, buf) == [h EXCEPT ![Len(h)] = buf]

\* new Uint8Array(n) or new Float32Array(n), seen when the stage returns:
\* one more array, holding buf.
allocate(h, buf) == Append(h, buf)

\* The state at the call c of one stage on a new DepthProcessor.
StageCalled(c) ==
    /\ pc = "stage"
    /\ call = c
    /\ temp = Null /\ result = Null
    /\ heap = stageArguments(c) /\ resultRef = Null
    /\ options = Null
    /\ canvas = newCanvas
    /\ thrown = "none"
    /\ stages = <<>>
    /\ normalized = Null /\ depthImageData = Null
    /\ leftImg = Null /\ rightImg = Null /\ leftData = Null /\ rightData = Null
    /\ leftGray = Null /\ rightGray = Null /\ disparity = Null /\ median = Null
    /\ blurred = Null /\ processedDisparity = "disparity"
    /\ img = Null /\ imageData = Null /\ gray = Null /\ edges = Null
    /\ radial = Null /\ depth = Null /\ smoothed = Null

StageInit ==
    /\ othersIdle
    /\ \/ \E c \in GrayscaleCalls : StageCalled(c)
       \/ \E c \in MedianCalls : StageCalled(c)
       \/ \E c \in BlurCalls : StageCalled(c)
       \/ \E c \in SobelCalls : StageCalled(c)
       \/ \E c \in RadialCalls : StageCalled(c)
       \/ \E c \in BlockMatchCalls : StageCalled(c)
       \/ \E c \in NormalizeCalls : StageCalled(c)

\* What a stage leaves alone: everything but its result, which is in the
\* array it allocated first.
stageFrame ==
    /\ resultRef' = Len(heap) + 1
    /\ UNCHANGED <<options, canvas, thrown, stages, normalized, depthImageData,
                   stereoVars, fallbackVars, call, otherVars>>

\* toGrayscale(imageData)
CallToGrayscale ==
    /\ pc = "stage" /\ call.fn = "toGrayscale"
    /\ result' = toGrayscale(call.imageData)
    /\ heap' = allocate(heap, result')
    /\ pc' = "done"
    /\ UNCHANGED temp
    /\ stageFrame

\* medianFilter(data, width, height, kernelSize)
CallMedianFilter ==
    /\ pc = "stage" /\ call.fn = "medianFilter"
    /\ result' = medianFilter(call.data, call.width, call.height, call.kernelSize)
    /\ heap' = allocate(heap, result')
    /\ pc' = "done"
    /\ UNCHANGED temp
    /\ stageFrame

\* gaussianBlur(data, width, height, sigma), and temp as it returns
CallGaussianBlur ==
    /\ pc = "stage" /\ call.fn = "gaussianBlur"
    /\ temp' = blurHorizontal(call.data, call.width, call.height, call.sigma)
    /\ result' = gaussianBlur(call.data, call.width, call.height, call.sigma)
    /\ heap' = allocate(allocate(heap, result'), temp')
    /\ pc' = "done"
    /\ stageFrame

\* sobelEdges(gray, width, height)
CallSobelEdges ==
    /\ pc = "stage" /\ call.fn = "sobelEdges"
    /\ result' = sobelEdges(call.gray, call.width, call.height)
    /\ heap' = allocate(heap, result')
    /\ pc' = "done"
    /\ UNCHANGED temp
    /\ stageFrame

\* The loops over radial, seen at the pixels of the call.
CallRadial ==
    /\ pc = "stage" /\ call.fn = "radial"
    /\ result' = [p \in call.pixels |-> radialAt(call.width, call.height, p[1], p[2])]
    /\ heap' = allocate(heap, result')
    /\ pc' = "done"
    /\ UNCHANGED temp
    /\ stageFrame

\* blockMatch(left, right, width, height, blockSize, maxDisparity)
CallBlockMatch ==
    /\ pc = "stage" /\ call.fn = "blockMatch"
    /\ result' = blockMatch(call.left, call.right, call.width, call.height,
                            call.blockSize, call.maxDisparity)
    /\ heap' = allocate(heap, result')
    /\ pc' = "done"
    /\ UNCHANGED temp
    /\ stageFrame

\* normalizeArray(data)
CallNormalizeArray ==
    /\ pc = "stage" /\ call.fn = "normalizeArray"
    /\ result' = normalizeArray(call.data)
    /\ heap' = allocate(heap, result')
    /\ pc' = "done"
    /\ UNCHANGED temp
    /\ stageFrame

NextStages ==
    \/ CallBlockMatch
    \/ CallNormalizeArray
    \/ CallToGrayscale
    \/ CallMedianFilter
    \/ CallGaussianBlur
    \/ CallSobelEdges
    \/ CallRadial

SpecStages == StageInit /\ [][NextStages]_vars

(***************************************************************************)
(* What the stereo pipeline is said to do, and what the model shows.       *)
(***************************************************************************)

\* The configurations the error taxonomy calls InvalidConfig.
InvalidConfig(o) == o.blockSize % 2 = 0 \/ o.blockSize <= 0 \/ o.maxDisparity < 0

\* The image pairs the error taxonomy calls InvalidInput.
InvalidInput(l, r) ==
    \/ l.width # r.width \/ l.height # r.height
    \/ l.width = 0 \/ l.height = 0 \/ r.width = 0 \/ r.height = 0

\* C1: a call with an invalid configuration (an even blockSize such as 8, a
\* blockSize <= 0, a negative maxDisparity) ends in an InvalidConfig error
\* before any stage has run or any field was allocated, and returns nothing.
C1_InvalidConfigRejected ==
    InvalidConfig(options) =>
        /\ stages = <<>>
        /\ leftGray = Null /\ rightGray = Null /\ disparity = Null
        /\ depthImageData = Null
        /\ pc # "returned"
        /\ pc = "thrown" => thrown = "InvalidConfig"

\* C2: a call whose images differ in width or height, or one of which has
\* width or height 0, is aborted: nothing is returned to the caller.
C2_InvalidInputRejected ==
    InvalidInput(leftImg, rightImg) => pc # "returned" /\ depthImageData = Null

(***************************************************************************)
(* The block matcher, as section 4.2 describes it: a left and a right      *)
(* field of the same width and height, an odd blockSize >= 1 and a         *)
(* maxDisparity >= 0.                                                      *)
(***************************************************************************)

\* The stage named has just returned.
justRan(stage) == stages # <<>> /\ stages[Len(stages)] = stage

oddBlock == options.blockSize >= 1 /\ options.blockSize % 2 = 1

matcherInput ==
    /\ justRan("blockMatch")
    /\ ~InvalidInput(leftImg, rightImg)
    /\ oddBlock
    /\ options.maxDisparity >= 0

\* half = (blockSize - 1) / 2
claimHalf == (options.blockSize - 1) \div 2

Columns == 0..(width - 1)

Rows == 0..(height - 1)

interiorColumn(x) == claimHalf <= x /\ x < width - claimHalf

interiorRow(y) == claimHalf <= y /\ y < height - claimHalf

Interior == {p \in Columns \X Rows : interiorColumn(p[1]) /\ interiorRow(p[2])}

\* The value of the field g at column x of row y.
at(g, x, y) == g[y * width + x]

\* The disparity of the output at (x, y), as a number.
disparityAt(x, y) == at(disparity, x, y) \div Q

\* The sum of absolute differences between the window centred at (x, y) in
\* the left field and the window centred at (x - d, y) in the right field.
windowSAD(x, y, d) ==
    LET n == options.blockSize
    IN  SumFn([k \in 0..(n * n - 1) |->
                  Abs(at(leftGray, x + (k % n) - claimHalf, y + (k \div n) - claimHalf)
                      - at(rightGray, x + (k % n) - claimHalf - d,
                           y + (k \div n) - claimHalf))],
              0, n * n - 1)

\* The candidates of column x: 0..min(maxDisparity, x - half).
Candidates(x) == 0..Min(options.maxDisparity, x - claimHalf)

\* C3: at every interior pixel the output is the candidate of minimal SAD,
\* and the smallest one when several candidates share the minimum.
C3_MinimalSADSmallestFirst ==
    matcherInput =>
        \A p \in Interior :
            LET x == p[1]
                y == p[2]
                d == disparityAt(x, y)
            IN  /\ at(disparity, x, y) = Fx(d)
                /\ d \in Candidates(x)
                /\ \A e \in Candidates(x) :
                      /\ windowSAD(x, y, d) <= windowSAD(x, y, e)
                      /\ e < d => windowSAD(x, y, d) < windowSAD(x, y, e)

\* A pixel whose output is a candidate d >= 1 that a later candidate ties.
C3_Witness ==
    /\ matcherInput
    /\ \E p \in Interior :
          LET d == disparityAt(p[1], p[2])
          IN  /\ d >= 1
              /\ \E e \in Candidates(p[1]) :
                    e > d /\ windowSAD(p[1], p[2], e) = windowSAD(p[1], p[2], d)

\* C4: identical left and right fields give disparity 0 at every interior
\* pixel.
C4_IdenticalFieldsZero ==
    matcherInput /\ leftGray = rightGray =>
        \A p \in Interior : at(disparity, p[1], p[2]) = 0

\* Identical fields that are not flat, with a pixel whose window also
\* matches exactly at a candidate d >= 1.
C4_Witness ==
    /\ matcherInput /\ leftGray = rightGray
    /\ \E i \in DOMAIN leftGray : leftGray[i] # leftGray[0]
    /\ \E p \in Interior :
          \E e \in Candidates(p[1]) : e >= 1 /\ windowSAD(p[1], p[2], e) = 0

\* right(x, y) = left(x + k, y) wherever x + k < W.
shiftedBy(k) ==
    \A x \in Columns, y \in Rows :
        x + k < width => at(rightGray, x, y) = at(leftGray, x + k, y)

\* The interior pixels the shift by k leaves a full window to: x - half >= k.
AwayFromBorder(k) == {p \in Interior : p[1] - claimHalf >= k}

\* C5, as claimed: when the right field is the left field shifted by
\* k <= maxDisparity, the output is exactly k at the pixels away from the
\* border.
C5_ShiftRecoveredExactly ==
    matcherInput =>
        \A k \in 0..options.maxDisparity :
            shiftedBy(k) =>
                \A p \in AwayFromBorder(k) : at(disparity, p[1], p[2]) = Fx(k)

\* C5, amended: the output there is the smallest candidate whose window
\* matches exactly; it is at most k, and it is k when no smaller candidate
\* matches exactly.
C5_ShiftRecoveredUpToRepetition ==
    matcherInput =>
        \A k \in 0..options.maxDisparity :
            shiftedBy(k) =>
                \A p \in AwayFromBorder(k) :
                    LET d == disparityAt(p[1], p[2])
                    IN  /\ at(disparity, p[1], p[2]) = Fx(d)
                        /\ d \in 0..k
                        /\ windowSAD(p[1], p[2], d) = 0
                        /\ \A e \in 0..(d - 1) : windowSAD(p[1], p[2], e) > 0

\* A shift by k >= 1 recovered exactly at a pixel away from the border.
C5_Witness ==
    /\ matcherInput
    /\ \E k \in 1..options.maxDisparity :
          /\ shiftedBy(k)
          /\ ~shiftedBy(0)
          /\ \E p \in AwayFromBorder(k) : at(disparity, p[1], p[2]) = Fx(k)

\* C6: every pixel within half of a border has disparity 0, whatever the
\* fields, also when the image is smaller than the block.
C6_BorderZero ==
    justRan("blockMatch") =>
        \A x \in Columns, y \in Rows :
            ~(interiorColumn(x) /\ interiorRow(y)) => at(disparity, x, y) = 0

\* A border of width half >= 1 around an interior pixel of disparity >= 1.
C6_Witness ==
    /\ justRan("blockMatch")
    /\ claimHalf >= 1
    /\ \E p \in Interior : at(disparity, p[1], p[2]) > 0
    /\ \E x \in Columns, y \in Rows : ~(interiorColumn(x) /\ interiorRow(y))

\* C7: every disparity written is a non-negative integer d <= maxDisparity,
\* and d <= x - half at the pixels of column x the loops write.
C7_DisparityWithinSearchRange ==
    justRan("blockMatch") /\ options.maxDisparity >= 0 =>
        \A x \in Columns, y \in Rows :
            LET d == disparityAt(x, y)
            IN  /\ at(disparity, x, y) = Fx(d)
                /\ 0 <= d /\ d <= options.maxDisparity
                /\ interiorColumn(x) /\ interiorRow(y) => d <= x - claimHalf

\* A pixel below the first row whose disparity is x - half >= 1, with
\* maxDisparity allowing more.
C7_Witness ==
    /\ justRan("blockMatch")
    /\ \E p \in Interior :
          /\ p[2] >= 1
          /\ disparityAt(p[1], p[2]) = p[1] - claimHalf
          /\ 1 <= p[1] - claimHalf /\ p[1] - claimHalf < options.maxDisparity

(***************************************************************************)
(* The normalizer and the 8-bit stores.                                    *)
(***************************************************************************)

\* The field handed to normalizeArray: the blurred one after smoothing, the
\* disparities without it.
normalizerInput == IF options.smoothing THEN blurred ELSE disparity

isMinimum(f, i) == \A j \in DOMAIN f : f[i] <= f[j]

isMaximum(f, i) == \A j \in DOMAIN f : f[i] >= f[j]

isConstant(f) == \A i \in DOMAIN f, j \in DOMAIN f : f[i] = f[j]

\* C8: of a field that is not constant the normalizer maps every minimum to
\* 0 and every maximum to 255; of a constant field it maps every element
\* to 0.
C8_NormalizerExtremes ==
    justRan("normalizeArray") =>
        \A i \in DOMAIN normalizerInput :
            /\ isConstant(normalizerInput) => normalized[i] = 0
            /\ ~isConstant(normalizerInput) /\ isMinimum(normalizerInput, i)
                   => normalized[i] = 0
            /\ ~isConstant(normalizerInput) /\ isMaximum(normalizerInput, i)
                   => normalized[i] = 255

\* A normalized field with a minimum, a maximum and a value between them.
C8_Witness ==
    /\ justRan("normalizeArray")
    /\ \E i \in DOMAIN normalized : normalized[i] = 0
    /\ \E i \in DOMAIN normalized : normalized[i] = 255
    /\ \E i \in DOMAIN normalized : 0 < normalized[i] /\ normalized[i] < 255

\* v is in 0..255 and is num / den clamped to 0..255 and rounded to a
\* nearest integer: nothing was reduced modulo 256.
clampedRounding(v, num, den) ==
    /\ v \in 0..255
    /\ num >= 255 * den => v = 255
    /\ num <= 0 => v = 0
    /\ 0 < num /\ num < 255 * den => 2 * Abs(v * den - num) <= den

\* The gray field of an ImageData holds the rounded luminosities.
grayStoresInRange(field, pixels) ==
    \A i \in DOMAIN field :
        clampedRounding(field[i],
                        299 * pixels.data[4 * i] + 587 * pixels.data[4 * i + 1]
                            + 114 * pixels.data[4 * i + 2],
                        1000)

\* C9: every value stored into an 8-bit field (both gray fields, the
\* normalizer's output, the R, G, B samples of the depth image) is the
\* value computed, rounded and clamped to 0..255, never wrapped.
C9_EightBitStoresClamped ==
    /\ grayStoresInRange(leftGray, leftData)
    /\ grayStoresInRange(rightGray, rightData)
    /\ normalized # Null =>
          LET f == normalizerInput
              lo == f[CHOOSE j \in DOMAIN f : isMinimum(f, j)]
              hi == f[CHOOSE j \in DOMAIN f : isMaximum(f, j)]
          IN  \A i \in DOMAIN normalized :
                  clampedRounding(normalized[i], (f[i] - lo) * 255,
                                  IF hi = lo THEN Q ELSE hi - lo)
    /\ pc = "returned" =>
          \A i \in DOMAIN processed : \A ch \in 0..2 :
              clampedRounding(depthImageData[4 * i + ch], processed[i], processedDen)

\* A depth image returned with normalize off after a search past 255: a
\* disparity above 255 stored as 255.
C9_Witness ==
    /\ pc = "returned"
    /\ ~options.normalize /\ options.maxDisparity > 255
    /\ \E i \in DOMAIN processed :
          processed[i] > Fx(255) /\ depthImageData[4 * i] = 255

(***************************************************************************)
(* The order of the stages.                                                *)
(***************************************************************************)

\* The stages of the stereo pipeline in their fixed order, for the options o.
expectedStages(o) ==
    <<"grayscale(left)", "grayscale(right)", "blockMatch">>
        \o (IF o.smoothing THEN <<"medianFilter", "gaussianBlur">> ELSE <<>>)
        \o (IF o.normalize THEN <<"normalizeArray">> ELSE <<>>)
        \o <<"fill">>

isPrefix(s, t) == Len(s) <= Len(t) /\ SubSeq(t, 1, Len(s)) = s

\* C10: the stages run in the fixed order; median and blur run exactly when
\* smoothing is set, median first; the normalizer runs exactly when
\* normalize is set, whatever smoothing is.
C10_StageOrder ==
    /\ isPrefix(stages, expectedStages(options))
    /\ pc = "returned" => stages = expectedStages(options)

\* A call returned with normalize set and smoothing not: the normalizer ran
\* right after the block matcher.
C10_Witness ==
    /\ pc = "returned"
    /\ options.normalize /\ ~options.smoothing
    /\ stages = <<"grayscale(left)", "grayscale(right)", "blockMatch",
                  "normalizeArray", "fill">>

(***************************************************************************)
(* The fallback pipeline.                                                  *)
(***************************************************************************)

\* The stages of the fallback pipeline in their fixed order.
fallbackStages ==
    <<"grayscale", "sobelEdges", "radial", "combine", "gaussianBlur",
      "normalizeArray", "fill">>

\* v is edge * edgeWeight + rad * centerBias of the options o, to the grid.
isCombination(v, edge, rad, o) ==
    2 * Abs(WeightDen * v - (edge * o.edgeWeight + floatToGrid(rad) * o.centerBias))
        <= WeightDen

\* C11: the fallback pipeline runs grayscale, Sobel edges, the radial bias,
\* their combination edge * edgeWeight + radial * centerBias, the Gaussian
\* blur with sigma 5 and the normalizer, in this order and whatever the
\* options are; the depth map returned is the normalized 8-bit field.
C11_FallbackStageOrder ==
    /\ isPrefix(stages, fallbackStages)
    /\ pc = "returned" => stages = fallbackStages
    /\ depth # Null =>
          \A i \in DOMAIN depth : isCombination(depth[i], edges[i], radial[i], options)
    /\ smoothed # Null => smoothed = gaussianBlur(depth, img.width, img.height, 5)
    /\ normalized # Null =>
          /\ normalized = normalizeArray(smoothed)
          /\ \A i \in DOMAIN normalized : normalized[i] \in 0..255
          /\ \E i \in DOMAIN normalized : normalized[i] = 0
    /\ pc = "returned" =>
          \A i \in DOMAIN normalized :
              /\ \A ch \in 0..2 : depthImageData[4 * i + ch] = normalized[i]
              /\ depthImageData[4 * i + 3] = 255

\* A fallback depth map returned after all seven stages, spanning 0..255.
C11_Witness ==
    /\ pc = "returned"
    /\ stages = fallbackStages
    /\ \E i \in DOMAIN normalized : depthImageData[4 * i] = 255
    /\ \E i \in DOMAIN normalized : depthImageData[4 * i] = 0

(***************************************************************************)
(* The end-to-end scenario of the stereo pipeline.                         *)
(***************************************************************************)

\* The call is the scenario's: two identical uniform gray images of
\* ScenarioSize x ScenarioSize, smoothing and normalize set.
uniformScenario ==
    /\ leftImg # Null
    /\ leftImg = rightImg
    /\ leftImg.width = ScenarioSize /\ leftImg.height = ScenarioSize
    /\ \A j \in DOMAIN leftImg.data :
          leftImg.data[j] = IF j % 4 = 3 THEN 255 ELSE ScenarioGray
    /\ options.smoothing /\ options.normalize

allZero(f) == \A i \in DOMAIN f : f[i] = 0

\* C12: two identical uniform gray images (every pixel 100, 16 x 16) through
\* the stereo pipeline with smoothing and normalize set: the disparity is 0
\* everywhere, median and blur keep it 0, the normalizer outputs 0, and every
\* pixel of the depth map returned is 0.
C12_UniformPairAllZero ==
    uniformScenario =>
        /\ allZero(disparity) /\ allZero(median) /\ allZero(blurred)
        /\ allZero(normalized)
        /\ pc = "returned" =>
              /\ stages = expectedStages(options)
              /\ DOMAIN depthImageData = 0..(4 * ScenarioSize * ScenarioSize - 1)
              /\ \A j \in DOMAIN depthImageData :
                    depthImageData[j] = IF j % 4 = 3 THEN 255 ELSE 0

\* The scenario's call returned, all five stages run.
C12_Witness ==
    /\ uniformScenario
    /\ pc = "returned"
    /\ DOMAIN normalized = 0..(ScenarioSize * ScenarioSize - 1)
    /\ depthImageData[0] = 0

(***************************************************************************)
(* The stages one by one.                                                  *)
(***************************************************************************)

\* The stage fn, called on its own, has returned.
stageDone(fn) == pc = "done" /\ call.fn = fn

\* v brought into lo..hi: the nearest valid row or column.
nearestValid(v, lo, hi) == IF v < lo THEN lo ELSE IF v > hi THEN hi ELSE v

\* The values of the field f of w x h around (x, y), one for each offset
\* (kx, ky) in -half..half, read at the nearest valid column and row.
neighbourhood(f, w, h, half, x, y) ==
    [k \in ((-half)..half) \X ((-half)..half) |->
        f[nearestValid(y + k[2], 0, h - 1) * w + nearestValid(x + k[1], 0, w - 1)]]

\* v is the element at index floor(count / 2) of the ascending sort of nb.
isMiddleOfSorted(v, nb) ==
    LET count == Cardinality(DOMAIN nb)
    IN  /\ \E k \in DOMAIN nb : nb[k] = v
        /\ Cardinality({k \in DOMAIN nb : nb[k] < v}) <= count \div 2
        /\ Cardinality({k \in DOMAIN nb : nb[k] <= v}) > count \div 2

\* C13: for every pixel, medianFilter outputs the element at index
\* floor(count / 2) of the ascending sort of the kernelSize^2 values of its
\* neighbourhood, a neighbour out of range read at the nearest valid row or
\* column (not wrapped to the opposite side, not taken as 0).
C13_MedianOfClampedNeighbourhood ==
    stageDone("medianFilter") /\ call.kernelSize % 2 = 1 =>
        /\ DOMAIN result = 0..(call.width * call.height - 1)
        /\ \A x \in 0..(call.width - 1), y \in 0..(call.height - 1) :
              isMiddleOfSorted(result[y * call.width + x],
                               neighbourhood(call.data, call.width, call.height,
                                             (call.kernelSize - 1) \div 2, x, y))

\* A 3 x 3 field that is 1 on its upper left 2 x 2 pixels and 0 on its last
\* row and column: the corner's median is 1, where wrapping or zero padding
\* would bring five zeroes into its kernel.
C13_Witness ==
    /\ stageDone("medianFilter")
    /\ call.kernelSize = 3 /\ call.width = 3 /\ call.height = 3
    /\ \A i \in {0, 1, 3, 4} : call.data[i] = Fx(1)
    /\ \A i \in {2, 5, 6, 7, 8} : call.data[i] = 0
    /\ result[0] = Fx(1)

\* The field f holds one value everywhere.
isConstantField(f) == \A i \in DOMAIN f, j \in DOMAIN f : f[i] = f[j]

\* C14: medianFilter applied to a constant field returns a field of the same
\* dimensions holding the same constant at every pixel, for every odd
\* kernelSize >= 1 and every width and height > 0, border pixels and images
\* smaller than the kernel included.
C14_MedianKeepsConstant ==
    /\ stageDone("medianFilter")
    /\ call.kernelSize % 2 = 1
    /\ isConstantField(call.data)
    => /\ DOMAIN result = 0..(call.width * call.height - 1)
       /\ result = call.data

\* A 2 x 2 field of the constant 0.31 filtered under a 7 x 7 kernel.
C14_Witness ==
    /\ stageDone("medianFilter")
    /\ call.kernelSize = 7 /\ call.width = 2 /\ call.height = 2
    /\ \A i \in 0..3 : call.data[i] = 31 /\ result[i] = 31

\* C15: gaussianBlur applied to a constant field returns the same constant
\* at every pixel, up to the rounding of a store (one step of the grid),
\* border pixels and images narrower or shorter than the kernel included.
C15_BlurKeepsConstant ==
    stageDone("gaussianBlur") /\ isConstantField(call.data) =>
        /\ DOMAIN result = 0..(call.width * call.height - 1)
        /\ \A i \in DOMAIN result : Abs(result[i] - call.data[i]) <= 1

\* A 2 x 1 field of the constant 255 blurred under the 31 taps of sigma 5.
C15_Witness ==
    /\ stageDone("gaussianBlur")
    /\ call.sigma = 5 /\ call.width = 2 /\ call.height = 1
    /\ \A i \in 0..1 : call.data[i] = Fx(255) /\ Abs(result[i] - Fx(255)) <= 1

\* The radius of the kernel of sigma, ceil(3 * sigma), and its taps.
radiusOf(sigma) == 3 * sigma

Taps(sigma) == (-radiusOf(sigma))..radiusOf(sigma)

\* v is the weighted mean, to the grid, of the values vals[k] under the
\* weights of sigma, k running over the taps.
isWeightedMean(v, vals, sigma) ==
    LET r == radiusOf(sigma)
        total == SumFn([j \in 0..(2 * r) |-> vals[j - r] * kernelWeight(sigma, j - r)],
                       0, 2 * r)
    IN  2 * Abs(v * kernelSum(sigma) - total) <= kernelSum(sigma)

\* v is the 1-D convolution of the row y of f at column x.
isRowMean(v, f, w, sigma, x, y) ==
    isWeightedMean(v, [k \in Taps(sigma) |-> f[y * w + nearestValid(x + k, 0, w - 1)]],
                   sigma)

\* v is the 1-D convolution of the column x of f at row y.
isColumnMean(v, f, w, h, sigma, x, y) ==
    isWeightedMean(v, [k \in Taps(sigma) |-> f[nearestValid(y + k, 0, h - 1) * w + x]],
                   sigma)

\* C16: gaussianBlur is two 1-D passes: the horizontal pass fills a complete
\* intermediate field from the input alone, the vertical pass computes the
\* result from that intermediate alone; a tap at a column or row out of
\* range reads the nearest valid one.
C16_BlurTwoPasses ==
    stageDone("gaussianBlur") =>
        /\ DOMAIN temp = 0..(call.width * call.height - 1)
        /\ DOMAIN result = DOMAIN temp
        /\ \A x \in 0..(call.width - 1), y \in 0..(call.height - 1) :
              /\ isRowMean(temp[y * call.width + x], call.data, call.width,
                           call.sigma, x, y)
              /\ isColumnMean(result[y * call.width + x], temp, call.width,
                              call.height, call.sigma, x, y)

\* A field blurred where some pixel of the result is neither what the
\* horizontal pass left nor the vertical mean of the input.
C16_Witness ==
    /\ stageDone("gaussianBlur")
    /\ call.width = 2 /\ call.height = 3
    /\ \E x \in 0..1, y \in 0..2 :
          /\ result[y * 2 + x] # temp[y * 2 + x]
          /\ temp[y * 2 + x] # call.data[y * 2 + x]
          /\ ~isColumnMean(result[y * 2 + x], call.data, 2, 3, call.sigma, x, y)

\* C17: sobelEdges returns 0 at every pixel, interior and border, of a field
\* of constant intensity, for every intensity 0..255 and every width and
\* height > 0.
C17_SobelZeroOnConstant ==
    stageDone("sobelEdges") /\ isConstantField(call.gray) =>
        /\ DOMAIN result = 0..(call.width * call.height - 1)
        /\ \A i \in DOMAIN result : result[i] = 0

\* The 3 x 3 field of intensity 255, its one interior pixel computed as 0.
C17_Witness ==
    /\ stageDone("sobelEdges")
    /\ call.width = 3 /\ call.height = 3
    /\ \A i \in 0..8 : call.gray[i] = 255
    /\ result[4] = 0

\* (x, y) is on the first or last row or column of a w x h field.
onBorder(w, h, x, y) == x = 0 \/ x = w - 1 \/ y = 0 \/ y = h - 1

\* C18: in the output of sobelEdges every pixel of the first and last row
\* and column is 0 whatever the input, and every read of the 3 x 3 kernel is
\* at a column in 0..W-1 and a row in 0..H-1 of the field; with W < 3 or
\* H < 3 the whole output is 0.
C18_SobelBorderZero ==
    stageDone("sobelEdges") =>
        /\ DOMAIN result = 0..(call.width * call.height - 1)
        /\ \A x \in 0..(call.width - 1), y \in 0..(call.height - 1) :
              onBorder(call.width, call.height, x, y) => result[y * call.width + x] = 0
        /\ \A x \in sobelRange(call.width), y \in sobelRange(call.height) :
              \A kx \in (-1)..1, ky \in (-1)..1 :
                  /\ x + kx \in 0..(call.width - 1)
                  /\ y + ky \in 0..(call.height - 1)
                  /\ sobelIdx(call.width, x, y, (ky + 1) * 3 + kx + 2)
                        = (y + ky) * call.width + (x + kx)
                  /\ (y + ky) * call.width + (x + kx) \in DOMAIN call.gray
        /\ call.width < 3 \/ call.height < 3 => \A i \in DOMAIN result : result[i] = 0

\* A 3 x 3 field with an edge through it: the interior pixel holds the
\* magnitude, the eight border pixels hold 0.
C18_Witness ==
    /\ stageDone("sobelEdges")
    /\ call.width = 3 /\ call.height = 3
    /\ call.gray[0] # call.gray[2]
    /\ result[4] > 0
    /\ \A i \in 0..8 : i # 4 => result[i] = 0

\* C19: for every pixel whose samples are R = G = B = k, k in 0..255,
\* toGrayscale outputs exactly k, whatever the alpha sample is.
C19_GrayIsFixed ==
    stageDone("toGrayscale") =>
        \A i \in DOMAIN result :
            LET r == call.imageData.data[4 * i]
            IN  (call.imageData.data[4 * i + 1] = r /\ call.imageData.data[4 * i + 2] = r)
                    => result[i] = r

\* The gray pixel (200, 200, 200) with alpha 128, converted to 200.
C19_Witness ==
    /\ stageDone("toGrayscale")
    /\ \A j \in 0..2 : call.imageData.data[j] = 200
    /\ call.imageData.data[3] = 128
    /\ result[0] = 200

\* The squared distance of the pixel p from the centre (W/2, H/2) of the
\* call's image, times 4.
centreDistSq4(p) ==
    (2 * p[1] - call.width) * (2 * p[1] - call.width)
        + (2 * p[2] - call.height) * (2 * p[2] - call.height)

closer(p, q) == centreDistSq4(p) < centreDistSq4(q)

floatZero == [man |-> 0, exp |-> 0]

floatOne == [man |-> Pow2(23), exp |-> 23]

\* Every stored value lies in [0, 1], no pixel being farther from the centre
\* than the corner, and pixels at one distance hold one value.
radialInRangeAndEven ==
    \A p \in call.pixels :
        /\ centreDistSq4(p) <= call.width * call.width + call.height * call.height
        /\ ~floatLess(result[p], floatZero)
        /\ ~floatLess(floatOne, result[p])
        /\ \A q \in call.pixels :
               centreDistSq4(p) = centreDistSq4(q) => result[p] = result[q]

\* C20 as stated: for all W, H > 0 the radial field takes values in [0, 1]
\* and, for any two pixels p and q, p strictly closer to the centre than q
\* gives value(p) > value(q), equal distances giving equal values.
C20_RadialStrictlyDecreasing ==
    stageDone("radial") =>
        /\ radialInRangeAndEven
        /\ \A p, q \in call.pixels :
               closer(p, q) => floatLess(result[q], result[p])

\* C20, amended: the radial field takes values in [0, 1], equal distances
\* give equal values, and p strictly closer to the centre than q gives
\* value(p) >= value(q); the order is strict in every image of at most
\* MaxW x MaxW pixels, and is lost where two values round to one 32-bit float.
C20_RadialWeaklyDecreasing ==
    stageDone("radial") =>
        /\ radialInRangeAndEven
        /\ \A p, q \in call.pixels :
               closer(p, q) =>
                   /\ ~floatLess(result[p], result[q])
                   /\ (call.width <= MaxW /\ call.height <= MaxW)
                          => floatLess(result[q], result[p])

\* The large image: the centre holds more than the pixel (5725, 3000), which
\* holds the same float as its lower neighbour (5725, 3001).
C20_Witness ==
    /\ stageDone("radial")
    /\ call.width = LargeW /\ call.height = LargeH
    /\ closer(<<4000, 3000>>, <<5725, 3000>>)
    /\ floatLess(result[<<5725, 3000>>], result[<<4000, 3000>>])
    /\ ~closer(<<5725, 3001>>, <<5725, 3000>>)
    /\ result[<<5725, 3000>>] = result[<<5725, 3001>>]

(***************************************************************************)
(* What is said of the stages as functions of their buffers.               *)
(***************************************************************************)

\* The six stages of the two pipelines.
StageNames ==
    {"toGrayscale", "blockMatch", "medianFilter", "gaussianBlur",
     "normalizeArray", "sobelEdges"}

\* C21: no stage mutates its input: toGrayscale, blockMatch, medianFilter,
\* gaussianBlur, normalizeArray and sobelEdges leave every element of every
\* buffer they were given as it was, and the buffer they return is a new
\* one, none of those that existed at the call.
C21_InputsKept ==
    [][(pc = "stage" /\ call.fn \in StageNames) =>
           /\ call' = call
           /\ \A i \in 1..Len(heap) : heap'[i] = heap[i] /\ heap[i] = stageArguments(call)[i]
           /\ resultRef' \in (DOMAIN heap') \ (DOMAIN heap)
           /\ heap'[resultRef'] = result']_vars

\* A stage has returned a buffer that differs from its argument, which is
\* still what it was.
C21_Witness ==
    /\ pc = "done" /\ call.fn \in StageNames
    /\ heap[1] = stageArguments(call)[1]
    /\ heap[resultRef] = result
    /\ \E i \in DOMAIN result : result[i] # heap[1][i]

(***************************************************************************)
(* What is said of the two pipelines together.                             *)
(***************************************************************************)

\* The stage named has run in this call.
hasRun(stage) == \E i \in DOMAIN stages : stages[i] = stage

\* The buffer f has exactly n elements, indexed from 0.
hasElements(f, n) == DOMAIN f = 0..(n - 1) /\ Cardinality(DOMAIN f) = n

\* The fields of computeDepthMap produced so far have as many elements as
\* the image they were made from has pixels: rightGray of the right image,
\* the others of the left one, whose width and height the call goes by.
stereoFieldsSized ==
    LET n == leftImg.width * leftImg.height
    IN  /\ hasRun("grayscale(left)") => hasElements(leftGray, n)
        /\ hasRun("grayscale(right)")
               => hasElements(rightGray, rightImg.width * rightImg.height)
        /\ hasRun("blockMatch") => hasElements(disparity, n)
        /\ hasRun("medianFilter") => hasElements(median, n)
        /\ hasRun("gaussianBlur") =>
               /\ hasElements(blurHorizontal(median, width, height, 2), n)
               /\ hasElements(blurred, n)
        /\ hasRun("normalizeArray") => hasElements(normalized, n)
        /\ hasRun("fill") => hasElements(depthImageData, 4 * n)

\* The same of createFallbackDepthMap.
fallbackFieldsSized ==
    LET n == img.width * img.height
    IN  /\ hasRun("grayscale") => hasElements(gray, n)
        /\ hasRun("sobelEdges") => hasElements(edges, n)
        /\ hasRun("radial") => hasElements(radial, n)
        /\ hasRun("combine") => hasElements(depth, n)
        /\ hasRun("gaussianBlur") =>
               /\ hasElements(blurHorizontal(depth, img.width, img.height, fallbackSigma), n)
               /\ hasElements(smoothed, n)
        /\ hasRun("normalizeArray") => hasElements(normalized, n)
        /\ hasRun("fill") => hasElements(depthImageData, 4 * n)

\* C22: every field produced along either pipeline (grayscale, disparity,
\* median output, blur intermediate and output, edge field, radial field,
\* normalized depth map) has exactly W * H elements for the W, H of the
\* input image, and the final depth image has W * H * 4 samples.
C22_FieldsSized ==
    /\ leftImg # Null => stereoFieldsSized
    /\ img # Null => fallbackFieldsSized

\* A stereo call on a 2 x 1 left image has returned with every field made.
C22_Witness ==
    /\ pc = "returned" /\ leftImg # Null
    /\ leftImg.width = 2 /\ leftImg.height = 1
    /\ hasRun("gaussianBlur") /\ hasRun("normalizeArray")
    /\ hasElements(depthImageData, 8)

(***************************************************************************)
(* What is said of calls that share one DepthProcessor.                    *)
(***************************************************************************)

\* The ImageData that getImageData(image) returns on a canvas left as c.
dataAlone(c, image) == getImageData(canvasDrawn(c, image), image)

\* The depth buffer computeDepthMap(l, r, o) fills when it is the only call
\* ever made on its DepthProcessor.
stereoAlone(l, r, o) ==
    LET leftG == toGrayscale(dataAlone(newCanvas, l))
        rightG == toGrayscale(dataAlone(canvasDrawn(newCanvas, l), r))
        d == blockMatch(leftG, rightG, l.width, l.height, o.blockSize, o.maxDisparity)
        smooth == IF o.smoothing
                  THEN gaussianBlur(medianFilter(d, l.width, l.height, 3),
                                    l.width, l.height, 2)
                  ELSE d
    IN  IF o.normalize
        THEN depthFill(normalizeArray(smooth), 1, l.width, l.height)
        ELSE depthFill(smooth, Q, l.width, l.height)

\* The same of createFallbackDepthMap(i, o).
fallbackAlone(i, o) ==
    LET g == toGrayscale(dataAlone(newCanvas, i))
        e == sobelEdges(g, i.width, i.height)
        r == radialGradient(i.width, i.height)
        d == [k \in 0..(i.width * i.height - 1) |-> combine(e[k], r[k], o)]
    IN  depthFill(normalizeArray(gaussianBlur(d, i.width, i.height, fallbackSigma)),
                  1, i.width, i.height)

\* The call c, alone on a new processor, ends in an exception.
throwsAlone(c) ==
    IF c.kind = "stereo"
    THEN getImageDataThrows(c.in.leftImg) \/ getImageDataThrows(c.in.rightImg)
    ELSE getImageDataThrows(c.in.img)

depthAlone(c) ==
    IF c.kind = "stereo" THEN stereoAlone(c.in.leftImg, c.in.rightImg, c.in.options)
    ELSE fallbackAlone(c.in.img, c.in.options)

\* The call that is running or has just ended.
running == made[Len(made)]

\* C23: the result of a call depends only on its images and options: in any
\* succession of calls of computeDepthMap and createFallbackDepthMap on one
\* DepthProcessor, whose scratch canvas they share, each call returns the
\* depth buffer it returns when run alone on a new processor (and throws
\* when it throws alone).
C23_CallsIndependent ==
    /\ pc = "returned" => ~throwsAlone(running) /\ depthImageData = depthAlone(running)
    /\ pc = "thrown" => throwsAlone(running)

\* The second call, a stereo pair whose right image has a transparent pixel
\* where the canvas held an opaque one, has returned a depth map that is not
\* flat.
C23_Witness ==
    /\ pc = "returned"
    /\ Len(made) = 2
    /\ running.kind = "stereo"
    /\ made[1].kind = "fallback" /\ made[1].in.img.width = 3
    /\ running.in.rightImg.width = 2
    /\ running.in.rightImg.data[7] = 0
    /\ depthImageData[0] # depthImageData[4]

(***************************************************************************)
(* The stereo-pair extractor.                                              *)
(***************************************************************************)

\* findJPEGBoundaries and parse have returned.
parsed == pc = "parsed"

outerIteration == pc = "outerLoop" /\ pos < lengthOf(uint8) - 1

innerIteration == pc = "innerLoop" /\ pos < lengthOf(uint8) - 1

\* The inner loop reads an SOI marker inside an image.
nestedSOI == innerIteration /\ atSOI(uint8, pos)

endsWith(name, suffix) ==
    /\ Len(name) >= Len(suffix)
    /\ SubSeq(toLowerCase(name), Len(name) - Len(suffix) + 1, Len(name)) = suffix

isMPOFile(file) == endsWith(file.name, <<".", "m", "p", "o">>)

isSingleImageFile(file) ==
    \/ endsWith(file.name, <<".", "j", "p", "g">>)
    \/ endsWith(file.name, <<".", "j", "p", "e", "g">>)
    \/ endsWith(file.name, <<".", "p", "n", "g">>)

\* The viewer w is the viewer v with one image set more.
oneSetAdded(v, w) ==
    /\ Len(w.imageSets) = Len(v.imageSets) + 1
    /\ SubSeq(w.imageSets, 1, Len(v.imageSets)) = v.imageSets

\* The last image set of w is the left image with the depth of the stereo
\* pipeline, or the one image with the depth of the fallback pipeline.
lastIsStereo(w) ==
    LET set == w.imageSets[Len(w.imageSets)]
    IN  set.colorTexture = "leftImg" /\ set.depthTexture.by = "computeDepthMap"

lastIsFallback(w) ==
    LET set == w.imageSets[Len(w.imageSets)]
    IN  set.colorTexture = "img" /\ set.depthTexture.by = "createFallbackDepthMap"

\* What the claim says of a file that is processed from viewer v to w.
routedAsSaid(file, v, w) ==
    /\ isMPOFile(file) =>
           /\ oneSetAdded(v, w)
           /\ lastIsStereo(w) <=> file.images = 2
           /\ lastIsFallback(w) <=> file.images # 2
    /\ isSingleImageFile(file) => oneSetAdded(v, w) /\ lastIsFallback(w)
    /\ Len(w.imageSets) <= Len(v.imageSets) + 1

\* C24: an MPO file goes through the stereo pipeline exactly when the
\* extractor returned two images for it and through the fallback pipeline on
\* the one image otherwise; .jpg, .jpeg and .png files go through the
\* fallback pipeline; a file that is processed adds exactly one image set.
\* It holds of each file in the loop of handleFiles, and of the loop's body
\* on every name (which does not depend on the state, and is looked at in
\* the first).
C24_FilesRouted ==
    /\ [][(pc = "handleFiles" /\ files # <<>> /\ files' # files
              /\ Head(files).decodes)
          => routedAsSaid(Head(files), viewer, viewer')]_vars
    /\ [](viewer = Null =>
              \A file \in NamedFiles :
                  \A v \in {newViewer, processFile(newViewer, file)} :
                      file.decodes => routedAsSaid(file, v, processFile(v, file)))

\* A stereo pair and then a single image were loaded and the viewer started.
C24_Witness ==
    /\ pc = "idle"
    /\ viewer # Null
    /\ viewer.isRunning
    /\ Len(viewer.imageSets) = 2
    /\ viewer.imageSets[1].depthTexture.by = "computeDepthMap"
    /\ viewer.imageSets[2].depthTexture.by = "createFallbackDepthMap"

\* Files have been loaded and the viewer started by handleFiles; no
\* orientation data has come, no permission is being asked, and the mode
\* button has not been clicked.
loadedWithoutGyro ==
    /\ pc = "idle"
    /\ viewer # Null
    /\ viewer.isRunning
    /\ Len(viewer.imageSets) >= 1
    /\ ~viewer.gyroAvailable
    /\ elements.permissionModal = "hidden"
    /\ ~toggled

\* The target rotation the position of the pointer stands for.
targetOf(v, event) ==
    /\ v.targetRotationX = event.offsetY * v.sensitivity
    /\ v.targetRotationY = event.offsetX * v.sensitivity

\* C25: on a device that delivers no orientation data, once files are loaded
\* and the viewer started, a mouse move or touch move sets the target
\* rotation, without a click on the mode button.
C25_MouseFallback ==
    loadedWithoutGyro =>
        /\ \A event \in MousePointers :
               targetOf(dispatched(viewer, window, "mousemove", event), event)
        /\ \A event \in TouchPointers :
               targetOf(dispatched(viewer, window, "touchmove", event), event)

\* The number of image sets counted in the round trips.
MaxCount == 5

\* A viewer of n image sets showing the one of index i.
viewerShowing(n, i) ==
    [newViewer EXCEPT
        !.imageSets = [k \in 1..n |-> [colorTexture |-> "img",
                                       depthTexture |-> fallbackDepth]],
        !.currentIndex = i]

RECURSIVE nextTimes(_, _)
\* k calls of next()
nextTimes(v, k) == IF k = 0 THEN v ELSE nextTimes(next(v).viewer, k - 1)

\* next and prev undo each other, and as many next as there are image sets
\* come back to the start.
roundTrips(v) ==
    /\ prev(next(v).viewer).viewer.currentIndex = v.currentIndex
    /\ next(prev(v).viewer).viewer.currentIndex = v.currentIndex
    /\ nextTimes(v, Len(v.imageSets)).currentIndex = v.currentIndex

\* C29: with n >= 1 image sets, next() moves the index shown from i to
\* (i+1) mod n and prev() from i to (i-1+n) mod n, neither raising an error;
\* next then prev, prev then next and n times next come back to i.  It holds
\* of every step of the app, and of viewers of up to MaxCount image sets
\* (which does not depend on the state, and is looked at in the first).
C29_NavigationModular ==
    /\ [][(viewer # Null /\ Len(viewer.imageSets) >= 1) =>
              LET n == Len(viewer.imageSets)
                  i == viewer.currentIndex
              IN  /\ (ClickNext \/ KeyArrowRight) =>
                          viewer'.currentIndex = (i + 1) % n /\ thrown' = thrown
                  /\ (ClickPrev \/ KeyArrowLeft) =>
                          viewer'.currentIndex = (i - 1 + n) % n /\ thrown' = thrown]_vars
    /\ []((viewer # Null /\ Len(viewer.imageSets) >= 1) => roundTrips(viewer))
    /\ [](viewer = Null =>
              \A n \in 1..MaxCount : \A i \in 0..(n - 1) :
                  /\ next(viewerShowing(n, i)).viewer.currentIndex = (i + 1) % n
                  /\ prev(viewerShowing(n, i)).viewer.currentIndex = (i - 1 + n) % n
                  /\ roundTrips(viewerShowing(n, i)))

\* Two image sets are loaded and the second is shown.
C29_Witness ==
    /\ viewer # Null
    /\ Len(viewer.imageSets) = 2
    /\ viewer.currentIndex = 1
    /\ thrown = "none"

\* C30: currentIndex is an integer from 0 to max(1, number of image sets) - 1
\* whatever was called, and no call of the navigation raises an error, the
\* viewer empty or not.
C30_IndexInRange ==
    viewer # Null =>
        /\ viewer.currentIndex \in 0..(Max(1, Len(viewer.imageSets)) - 1)
        /\ thrown = "none"

(***************************************************************************)
(* The reads of blockMatch.                                                *)
(***************************************************************************)

\* blockMatch has just returned.
blockMatched == Len(stages) > 0 /\ stages[Len(stages)] = "blockMatch"

\* The k-th read of the SAD of candidate d at pixel (x, y) is in column
\* x + bx of row y + by on the left and in column x + bx - d of the same row
\* on the right, all inside the image.
readInBounds(x, y, d, k) ==
    LET half == halfOf(options.blockSize)
        n == 2 * half + 1
        row == y + (k \div n) - half
        column == x + (k % n) - half
        c == [left |-> leftGray, right |-> rightGray, width |-> width,
              halfBlock |-> half, x |-> x, y |-> y]
    IN  /\ row \in 0..(height - 1)
        /\ column \in 0..(width - 1)
        /\ column - d \in 0..(width - 1)
        /\ leftIdx(c, k) = row * width + column
        /\ rightIdx(c, d, k) = row * width + column - d
        /\ leftIdx(c, k) \in 0..(width * height - 1)
        /\ rightIdx(c, d, k) \in 0..(width * height - 1)
        /\ hasElements(leftGray, width * height) => leftIdx(c, k) \in DOMAIN leftGray
        /\ hasElements(rightGray, width * height) =>
               rightIdx(c, d, k) \in DOMAIN rightGray

\* C37: every read of blockMatch for a SAD term is in bounds and in the row
\* meant: for every pixel the loops visit, every candidate d and every
\* window offset, the columns x+bx and x+bx-d lie in 0..W-1 and the row y+by
\* in 0..H-1, so that the index stays in its row and inside a buffer of W*H
\* elements.
C37_ReadsInBounds ==
    blockMatched =>
        LET half == halfOf(options.blockSize)
        IN  \A y \in loopRange(height, half) : \A x \in loopRange(width, half) :
                \A d \in 0..maxDOf(options.maxDisparity, x, half) :
                    \A k \in 0..(sadTerms([halfBlock |-> half]) - 1) :
                        readInBounds(x, y, d, k)

\* 3 x 3 blocks have been matched in an image wide enough for a candidate
\* d = 1.
C37_Witness ==
    /\ blockMatched
    /\ options.blockSize = 3
    /\ width >= 4 /\ height >= 3
    /\ options.maxDisparity >= 1
    /\ hasElements(rightGray, width * height)

(***************************************************************************)
(* The input mode, the toolbar and the listeners.                          *)
(***************************************************************************)

\* The listeners of the mode are registered.
listening(v, w) ==
    IF v.useGyroscope THEN "deviceorientation" \in w.listeners
    ELSE {"mousemove", "touchmove"} \subseteq w.listeners

\* C31: once toggleMode() has returned and the permission request it may
\* have made is answered, the mode of the viewer (useGyroscope) is the value
\* returned and the one the toolbar shows ('Gyro' for true, 'Touch' for
\* false), and the listeners of the mode are registered; also when the
\* request is denied and when files are added after a switch to touch.
C31_ModeConsistent ==
    viewer # Null =>
        /\ \A permission \in {"granted", "denied"} :
               LET t == toggleMode(viewer, window, permission)
               IN  /\ t.viewer.useGyroscope = t.returned
                   /\ listening(t.viewer, t.window)
        /\ toggled =>
               /\ viewer.useGyroscope = (elements.toggleModeBtn = "Gyro")
               /\ listening(viewer, window)

(***************************************************************************)
(* The pointer in gyroscope mode.                                          *)
(***************************************************************************)

\* The target rotation of a viewer.
targetRotation(v) == <<v.targetRotationX, v.targetRotationY>>

\* The gyroscope is the input and has delivered a reading.
gyroscopeActive == viewer # Null /\ viewer.useGyroscope /\ viewer.gyroAvailable

\* C32: while useGyroscope and gyroAvailable are both true, a mousemove and
\* a touchmove event leave targetRotationX and targetRotationY as they are,
\* whether the handler is called or the event is dispatched by the browser.
C32_PointerIgnored ==
    gyroscopeActive =>
        \A event \in MousePointers \cup TouchPointers :
            /\ targetRotation(handleMouseMove(viewer, event)) = targetRotation(viewer)
            /\ \A type \in {"mousemove", "touchmove"} :
                   targetRotation(dispatched(viewer, window, type, event))
                       = targetRotation(viewer)

\* The gyroscope is active while the listeners of the pointer are
\* registered, and the target is not the one a pointer would set.
C32_Witness ==
    /\ gyroscopeActive
    /\ {"mousemove", "touchmove"} \subseteq window.listeners
    /\ \A event \in MousePointers \cup TouchPointers :
           targetRotation(handleMouseMoveAlways(viewer, event)) # targetRotation(viewer)

(***************************************************************************)
(* The orientation sensor in touch/mouse mode.                             *)
(***************************************************************************)

\* The viewer after the browser dispatched a deviceorientation event: the
\* listener runs if it is registered.
orientationDispatched(v, w, event) ==
    IF "deviceorientation" \in w.listeners THEN handleDeviceOrientation(v, event)
    ELSE v

\* startMouseInput() has put the viewer in touch/mouse mode.
mouseMode ==
    /\ viewer # Null
    /\ ~viewer.useGyroscope
    /\ {"mousemove", "touchmove"} \subseteq window.listeners

\* C33: in touch/mouse mode (useGyroscope false after startMouseInput, from
\* the skip button, a failed start of the gyroscope or toggleMode) no
\* deviceorientation listener is registered and a deviceorientation event
\* leaves the target rotation as it is, whatever the order of
\* startGyroscope, startMouseInput, toggleMode, handleFiles and the steps of
\* the permission modal.
C33_OrientationIgnored ==
    mouseMode =>
        /\ "deviceorientation" \notin window.listeners
        /\ \A event \in Orientations :
               targetRotation(orientationDispatched(viewer, window, event))
                   = targetRotation(viewer)

(***************************************************************************)
(* The calibration of the gyroscope.                                       *)
(***************************************************************************)

\* The reference of a viewer.
calibration(v) == <<v.calibrationBeta, v.calibrationGamma>>

\* The target of a reading measured from the reference of the viewer:
\* (adjusted / 25) * sensitivity, clamped to [-1, 1].
relativeTarget(v, event) ==
    <<clamp((event.beta - v.calibrationBeta) * 4 * v.sensitivity),
      clamp((event.gamma - v.calibrationGamma) * 4 * v.sensitivity)>>

\* What handleDeviceOrientation does with a reading in the state the viewer
\* is in.
calibratesOnFirst(event) ==
    LET after == handleDeviceOrientation(viewer, event)
    IN  IF event.null # {} THEN after = viewer
        ELSE IF ~viewer.isCalibrated
        THEN /\ after.isCalibrated
             /\ calibration(after) = <<event.beta, event.gamma>>
             /\ targetRotation(after) = <<0, 0>>
        ELSE /\ after.isCalibrated
             /\ calibration(after) = calibration(viewer)
             /\ targetRotation(after) = relativeTarget(viewer, event)

\* A step of the viewer keeps the reference while it stays calibrated, and
\* ends the calibration only by calibrate().
referenceKept ==
    /\ (viewer.isCalibrated /\ viewer'.isCalibrated) =>
           calibration(viewer') = calibration(viewer)
    /\ (~viewer.isCalibrated /\ viewer'.isCalibrated) =>
           /\ \E event \in Readings :
                  event.null = {} /\ calibration(viewer') = <<event.beta, event.gamma>>
           /\ targetRotation(viewer') = <<0, 0>>
    /\ (viewer.isCalibrated /\ ~viewer'.isCalibrated) => viewer' = calibrate(viewer)

\* C34: the first orientation event with beta and gamma after the
\* construction or after calibrate() becomes the reference
\* (calibrationBeta, calibrationGamma) and gives the target (0, 0); later
\* events are measured from that reference until the next calibrate(); an
\* event whose beta or gamma is null changes nothing.
C34_Calibration ==
    /\ [](~WiggleViewer([sensitivity |-> 0, smoothing |-> 0]).isCalibrated
          /\ ~calibrate(viewer).isCalibrated
          /\ \A event \in Readings : calibratesOnFirst(event))
    /\ [][referenceKept]_vars

\* A reading has been measured from the reference that an earlier one set.
C34_Witness ==
    /\ viewer.isCalibrated /\ viewer.gyroAvailable
    /\ calibration(viewer) = <<10, 0 - 5>>
    /\ viewer.sensitivity = 15
    /\ targetRotation(viewer) = <<600, 0 - 1000>>

(***************************************************************************)
(* The bounds of the rotations.                                            *)
(***************************************************************************)

\* Both rotations of a pair are at most the bound, in thousandths.
within(rotation, bound) ==
    /\ rotation[1] \in (0 - bound)..bound
    /\ rotation[2] \in (0 - bound)..bound

\* The current rotation of a viewer.
currentRotation(v) == <<v.currentRotationX, v.currentRotationY>>

\* C35: the target that a deviceorientation event sets is in [-1, 1] on
\* both axes, and after every animation frame currentRotationX and
\* currentRotationY are in [-1.5, 1.5], whatever events of the sensor and
\* of the pointer and whatever changes of the sensitivity and of the
\* smoothing came before.
C35_RotationBounds ==
    /\ \A event \in Readings :
           event.null = {} =>
               within(targetRotation(handleDeviceOrientation(viewer, event)), 1000)
    /\ within(currentRotation(viewer), 1500)
    /\ within(currentRotation(animate(viewer, window).viewer), 1500)
    /\ \A id \in window.animationFrames :
           within(currentRotation(
               animate(viewer, [window EXCEPT !.animationFrames = @ \ {id}]).viewer),
               1500)

\* A frame has clamped the rotation, the target of the pointer being
\* beyond -1.5, in a viewer whose sensor is listened to and whose next
\* reading can be beyond 1 on both axes.
C35_Witness ==
    /\ window.rendered > 0
    /\ viewer.targetRotationX < 0 - 1500
    /\ viewer.currentRotationX = 0 - 1500
    /\ "deviceorientation" \in window.listeners
    /\ viewer.isCalibrated
    /\ viewer.sensitivity = 30
    /\ calibration(viewer) = <<10, 0 - 5>>

(***************************************************************************)
(* The animation loop.                                                     *)
(***************************************************************************)

\* A stopped viewer has no frame pending, and a frame is rendered for it
\* only by the start() that sets it running.
stoppedStaysStill ==
    (~viewer.isRunning /\ window'.rendered # window.rendered) =>
        /\ viewer'.isRunning
        /\ viewer' = viewerStart(viewer, window).viewer
        /\ window' = viewerStart(viewer, window).window

\* C36: whatever the order of start(), stop() and the callbacks of the
\* animation frames, at most one callback is pending, start() on a running
\* viewer does nothing, and after stop() no frame is rendered until start()
\* is called again.
C36_OneAnimationLoop ==
    /\ [](/\ Cardinality(window.animationFrames) <= 1
          /\ viewer.isRunning =>
                 viewerStart(viewer, window) = [viewer |-> viewer, window |-> window]
          /\ ~viewer.isRunning => window.animationFrames = {}
          /\ ~stop(viewer, window).viewer.isRunning
          /\ stop(viewer, window).window.animationFrames = {})
    /\ [][stoppedStaysStill]_vars

\* The viewer ran, a callback rendered a frame or start() was called twice,
\* and stop() cancelled the frame that was pending.
C36_Witness ==
    /\ ~viewer.isRunning
    /\ viewer.animationId = 0
    /\ window.requested >= 2
    /\ window.rendered >= 2
    /\ window.animationFrames = {}

====
